---- MODULE Spec2Model ----
(***************************************************************************)
(* A model of streamlit_app.py (JOB_HUNTER): the job aggregation,          *)
(* scoring, filtering and application-material pipeline.                   *)
(*                                                                         *)
(* Text is modelled by TLA+ strings; Python's `in`, lower(), slicing and   *)
(* the regular expressions of the source are computed character by         *)
(* character.  Match Scores are kept in hundredths of a point (the source  *)
(* rounds them to two decimals), so 100.00 is 10000.                       *)
(***************************************************************************)
EXTENDS Integers, Sequences, FiniteSets, TLC

(***************************************************************************)
(* Python string primitives                                                *)
(***************************************************************************)
UpperChars == "ABCDEFGHIJKLMNOPQRSTUVWXYZ"
LowerChars == "abcdefghijklmnopqrstuvwxyz"
WordChars == "abcdefghijklmnopqrstuvwxyzABCDEFGHIJKLMNOPQRSTUVWXYZ0123456789_"

\* s[i] as a one-character string
CharAt(s, i) == SubSeq(s, i, i)

\* Python's `sub in s`
Contains(s, sub) ==
    \E i \in 1..(Len(s) - Len(sub) + 1) : SubSeq(s, i, i + Len(sub) - 1) = sub

\* whether t stands in s at position i
StartsAt(s, i, t) == i + Len(t) - 1 <= Len(s) /\ SubSeq(s, i, i + Len(t) - 1) = t

\* Python's s[:n]
Prefix(s, n) == IF Len(s) <= n THEN s ELSE SubSeq(s, 1, n)

UpperSet == {CharAt(UpperChars, i) : i \in 1..Len(UpperChars)}
WordCharSet == {CharAt(WordChars, i) : i \in 1..Len(WordChars)}
ToLower ==
    [c \in UpperSet |->
        CharAt(LowerChars, CHOOSE i \in 1..Len(UpperChars) : CharAt(UpperChars, i) = c)]

LowerChar(c) == IF c \in UpperSet THEN ToLower[c] ELSE c

\* Python's s.lower()
RECURSIVE Lower(_)
Lower(s) == IF Len(s) = 0 THEN "" ELSE LowerChar(CharAt(s, 1)) \o Lower(SubSeq(s, 2, Len(s)))

\* any(p in s for p in terms)
ContainsAny(s, terms) == \E t \in terms : Contains(s, t)

\* sep.join(list)
RECURSIVE Join(_, _)
Join(list, sep) ==
    IF list = <<>> THEN ""
    ELSE IF Len(list) = 1 THEN list[1]
    ELSE list[1] \o sep \o Join(Tail(list), sep)

(***************************************************************************)
(* JobScraper                                                              *)
(***************************************************************************)
VARIABLES
    s_pc,         \* where scrape_all stands: the source it fetches next, or the stage
    keywords,     \* scrape_all's keywords argument (<<>> for None)
    all_jobs,     \* all_jobs: the merged list
    last_fetch,   \* how the fetcher called last ended: "ok", "failed" (caught), "none"
    progress,     \* the fractions passed to progress_callback, in percent
    unique_jobs,  \* unique_jobs / self.jobs
    kept          \* the positions of all_jobs whose records are in unique_jobs

scrapeVars == <<s_pc, keywords, all_jobs, last_fetch, progress, unique_jobs, kept>>


\* the longest merged list the model builds
MaxJobs == 3

\* the description slice of the keyword pre-filter
DescLimit == 500

Sources == <<"JobSpy", "RemoteOK", "Remotive", "Jobicy", "Arbeitnow", "Himalayas", "WeWorkRemotely">>

\* what the source sites can answer with: title, company, link (url, id, slug or
\* href), description
Items == {
    [title |-> "Data Analyst", company |-> "Acme", link |-> "/j/1", description |-> "sql"],
    [title |-> "data analyst", company |-> "ACME", link |-> "/j/2", description |-> ""],
    [title |-> "Data Analyst", company |-> "Acme", link |-> "", description |-> ""],
    [title |-> "Data Engineer", company |-> "Acme", link |-> "/j/1", description |-> ""],
    [title |-> "Project", company |-> "Acme", link |-> "/j/6",
     description |-> "Manager wanted"],
    [title |-> "Data", company |-> "Ops_Inc", link |-> "/j/7", description |-> ""],
    [title |-> "Data_Ops", company |-> "Inc", link |-> "/j/8", description |-> ""] }

\* a site answers with no item or with one
Payloads == {<<>>} \cup {<<it>> : it \in Items}

KeywordChoices == {<<>>, <<"data">>, <<"project manager">>}

\* the url each fetcher builds from the item
UrlOf(src, link) ==
    CASE src = "RemoteOK" -> "https://remoteok.com/remote-jobs/" \o link
      [] src = "Himalayas" -> "https://himalayas.app/jobs/" \o link
      [] src = "WeWorkRemotely" -> "https://weworkremotely.com" \o link
      [] OTHER -> link

\* the record a fetcher appends for one item
JobRecord(src, it) ==
    [title |-> it.title, company |-> it.company,
     description |-> IF src = "WeWorkRemotely" THEN "" ELSE it.description,
     url |-> UrlOf(src, it.link), source |-> src]

Normalise(src, payload) == [i \in 1..Len(payload) |-> JobRecord(src, payload[i])]

\* a faulty variant: a fetcher without its except clause: the exception reaches scrape_all
FetchOutcomeUncaught(src, payload, failed) ==
    [jobs |-> IF failed THEN <<>> ELSE Normalise(src, payload), raised |-> failed]

\* A fetcher's try/except: an exception anywhere in the body discards the jobs built
\* so far and returns []; nothing is raised to scrape_all.
FetchOutcome(src, payload, failed) ==
    [jobs |-> IF failed THEN <<>> ELSE Normalise(src, payload), raised |-> FALSE]

\* one "Source k" block of scrape_all: progress_callback, fetch, all_jobs.extend
ScrapeSource(src, pct, next) ==
    /\ s_pc = src
    /\ \E payload \in Payloads, failed \in BOOLEAN :
         LET out == FetchOutcome(src, payload, failed) IN
         /\ Len(all_jobs) + Len(payload) <= MaxJobs
         /\ progress' = Append(progress, pct)
         /\ last_fetch' = IF failed THEN "failed" ELSE "ok"
         /\ IF out.raised
            THEN /\ s_pc' = "raised"
                 /\ UNCHANGED all_jobs
            ELSE /\ s_pc' = next
                 /\ all_jobs' = all_jobs \o out.jobs
    /\ UNCHANGED <<keywords, unique_jobs, kept>>

ScrapeJobspy == ScrapeSource("JobSpy", 5, "RemoteOK")
ScrapeRemoteok == ScrapeSource("RemoteOK", 15, "Remotive")
ScrapeRemotive == ScrapeSource("Remotive", 25, "Jobicy")
ScrapeJobicy == ScrapeSource("Jobicy", 35, "Arbeitnow")
ScrapeArbeitnow == ScrapeSource("Arbeitnow", 45, "Himalayas")
ScrapeHimalayas == ScrapeSource("Himalayas", 55, "WeWorkRemotely")
ScrapeWeworkremotely == ScrapeSource("WeWorkRemotely", 65, "keyword_filter")

\* expanded_keywords
ExpandedKeywords(kws) ==
    LET lowered == {Lower(kws[i]) : i \in 1..Len(kws)} IN
    lowered
    \cup (IF \E kw \in lowered : Contains(kw, "social media")
          THEN {"social", "media", "content", "marketing", "community", "digital"} ELSE {})
    \cup (IF \E kw \in lowered : Contains(kw, "data")
          THEN {"data", "analyst", "analytics", "scientist", "engineer"} ELSE {})
    \cup (IF \E kw \in lowered : Contains(kw, "developer") \/ Contains(kw, "engineer")
          THEN {"developer", "engineer", "software", "frontend", "backend", "fullstack"} ELSE {})

\* the text the keyword pre-filter searches
Combined(job) == Lower(job.title) \o " " \o Prefix(Lower(job.description), DescLimit)

KeywordKeeps(job, kws) == ContainsAny(Combined(job), ExpandedKeywords(kws))

KeywordFiltered(jobs, kws) ==
    IF Len(kws) = 0 THEN jobs
    ELSE SelectSeq(jobs, LAMBDA job : KeywordKeeps(job, kws))

\* progress 0.75 and the keyword relevance filter
KeywordFilter ==
    /\ s_pc = "keyword_filter"
    /\ progress' = Append(progress, 75)
    /\ all_jobs' = KeywordFiltered(all_jobs, keywords)
    /\ s_pc' = "dedup"
    /\ UNCHANGED <<keywords, last_fetch, unique_jobs, kept>>

\* job_key
JobKey(job) == Lower(job.title) \o "_" \o Lower(job.company)

\* a faulty variant: a dedup that forgets the seen_urls test
DedupKeepsKeyOnly(job, seen_urls, seen_jobs) ==
    /\ job.url # ""
    /\ JobKey(job) \notin seen_jobs

\* a faulty variant: a dedup that forgets the seen_jobs test
DedupKeepsUrlOnly(job, seen_urls, seen_jobs) ==
    /\ job.url # ""
    /\ job.url \notin seen_urls

\* the condition under which the dedup loop keeps a job
DedupKeeps(job, seen_urls, seen_jobs) ==
    /\ job.url # ""
    /\ job.url \notin seen_urls
    /\ JobKey(job) \notin seen_jobs

\* a faulty variant: a loop that removes from the list it walks, so that the job
\* after a dropped one is never looked at and stays
RECURSIVE DedupFromSkipping(_, _, _, _)
DedupFromSkipping(jobs, i, seen_urls, seen_jobs) ==
    IF i > Len(jobs) THEN <<>>
    ELSE IF DedupKeeps(jobs[i], seen_urls, seen_jobs)
         THEN <<i>> \o DedupFromSkipping(jobs, i + 1, seen_urls \cup {jobs[i].url},
                                         seen_jobs \cup {JobKey(jobs[i])})
         ELSE IF i + 1 > Len(jobs) THEN <<>>
         ELSE <<i + 1>> \o DedupFromSkipping(jobs, i + 2, seen_urls, seen_jobs)

\* the dedup loop from position i on: the positions kept
RECURSIVE DedupFrom(_, _, _, _)
DedupFrom(jobs, i, seen_urls, seen_jobs) ==
    IF i > Len(jobs) THEN <<>>
    ELSE IF DedupKeeps(jobs[i], seen_urls, seen_jobs)
         THEN <<i>> \o DedupFrom(jobs, i + 1, seen_urls \cup {jobs[i].url},
                                 seen_jobs \cup {JobKey(jobs[i])})
         ELSE DedupFrom(jobs, i + 1, seen_urls, seen_jobs)

DedupIdx(jobs) == DedupFrom(jobs, 1, {}, {})

\* progress 0.80, the dedup pass, self.jobs = unique_jobs, return
Dedup ==
    /\ s_pc = "dedup"
    /\ progress' = Append(progress, 80)
    /\ kept' = DedupIdx(all_jobs)
    /\ unique_jobs' = [k \in 1..Len(kept') |-> all_jobs[kept'[k]]]
    /\ s_pc' = "done"
    /\ UNCHANGED <<keywords, all_jobs, last_fetch>>

(***************************************************************************)
(* JobFilter                                                               *)
(***************************************************************************)
VARIABLES
    f_pc,              \* "call": apply_all_filters is about to run; "done": it returned
    remote_type,       \* self.preferences['remote_type']
    max_days,          \* the max_days argument
    min_score,         \* the min_score argument, in hundredths
    exclude_keywords,  \* the exclude_keywords argument
    search_keywords,   \* the search_keywords argument
    f_input,           \* jobs_df as passed in
    boosted,           \* jobs_df after the keyword boost
    jobs_df,           \* jobs_df after the exclude filter
    recent,            \* filtered after the recency filter
    score_filtered,    \* score_filtered after the threshold cascade
    located,           \* filtered after the location stage, before the final cap
    result             \* the frame returned

filterVars == <<f_pc, remote_type, max_days, min_score, exclude_keywords, search_keywords,
                f_input, boosted, jobs_df, recent, score_filtered, located, result>>

\* Match Score arithmetic, in hundredths of a point
ScoreCap == 10000
TitleBoost == 1500
DescBoost == 1000
WorldwideBoost == 3000
UsPenalty == 4000
RelaxStep == 2000
RelaxFloor == 2000
LastThreshold == 1000

\* the row counts the stages compare with
MinRecent == 20
MinResults == 5
TopN == 20
MinUsaJobs == 5
RelaxedDays == 45

Min(a, b) == IF a <= b THEN a ELSE b
Max(a, b) == IF a >= b THEN a ELSE b

\* Series.clip(upper=100)
ClipUpper(score) == Min(score, ScoreCap)

\* Python's s.strip(), for blanks
RECURSIVE Strip(_)
Strip(s) ==
    IF Len(s) = 0 THEN s
    ELSE IF CharAt(s, 1) = " " THEN Strip(SubSeq(s, 2, Len(s)))
    ELSE IF CharAt(s, Len(s)) = " " THEN Strip(SubSeq(s, 1, Len(s) - 1))
    ELSE s

\* \w of the regular expressions, and \b at the gap before position p of s
IsWordChar(s, p) == p >= 1 /\ p <= Len(s) /\ CharAt(s, p) \in WordCharSet
WordBoundary(s, p) == IsWordChar(s, p - 1) # IsWordChar(s, p)

\* re.search(r'\b' + kw + r'\b', s)
WordMatch(s, kw) ==
    \E i \in 1..(Len(s) - Len(kw) + 1) :
        /\ SubSeq(s, i, i + Len(kw) - 1) = kw
        /\ WordBoundary(s, i)
        /\ WordBoundary(s, i + Len(kw))

\* the terms of search_pattern: the stripped, lower-cased, non-empty keywords
SearchTerms(kws) ==
    {Lower(Strip(kws[i])) : i \in {k \in 1..Len(kws) : Strip(kws[k]) # ""}}

\* a faulty variant: a title match and a description match both add their boost
BoostRowBoth(row, terms) ==
    LET title_match == ContainsAny(Lower(row.Title), terms)
        desc_match == ContainsAny(Lower(row.Description), terms)
        raised == row.Score + (IF title_match THEN TitleBoost ELSE 0)
                            + (IF desc_match THEN DescBoost ELSE 0)
    IN [row EXCEPT !.Score = ClipUpper(raised)]

\* one row after the keyword boost
BoostRow(row, terms) ==
    LET title_match == ContainsAny(Lower(row.Title), terms)
        desc_match == ContainsAny(Lower(row.Description), terms)
        raised == IF title_match THEN row.Score + TitleBoost
                  ELSE IF desc_match THEN row.Score + DescBoost
                  ELSE row.Score
    IN [row EXCEPT !.Score = ClipUpper(raised)]

\* KEYWORD RELEVANCE BOOST
KeywordBoost(df, kws) ==
    IF SearchTerms(kws) = {} THEN df
    ELSE [i \in 1..Len(df) |-> BoostRow(df[i], SearchTerms(kws))]

\* the exclude filter: the loop over exclude_keywords removes a row as soon as one
\* non-empty keyword matches its title as a whole word
Excluded(row, kws) ==
    \E i \in 1..Len(kws) :
        /\ Lower(Strip(kws[i])) # ""
        /\ WordMatch(Lower(row.Title), Lower(Strip(kws[i])))

ExcludeFilter(df, kws) == SelectSeq(df, LAMBDA row : ~Excluded(row, kws))

\* parse_date and days_ago: a missing or unparsable date counts as today
DaysAgo(posted) == IF posted[1] = "date" THEN posted[2] ELSE 0

WithinDays(df, days) == SelectSeq(df, LAMBDA row : DaysAgo(row.Posted) <= days)

\* a faulty variant: the retry looks at half the window instead of RelaxedDays
RecencyFilterNarrow(df, days) ==
    LET strict == WithinDays(df, days)
    IN IF Len(strict) < MinRecent THEN WithinDays(df, days \div 2) ELSE strict

\* the recency filter and its one relaxation
RecencyFilter(df, days) ==
    LET strict == WithinDays(df, days)
    IN IF Len(strict) < MinRecent THEN WithinDays(df, RelaxedDays) ELSE strict

AtLeast(df, threshold) == SelectSeq(df, LAMBDA row : row.Score >= threshold)

\* a stable sort by Match Score, descending
RECURSIVE InsertDesc(_, _)
InsertDesc(sorted, row) ==
    IF Len(sorted) = 0 THEN <<row>>
    ELSE IF sorted[Len(sorted)].Score >= row.Score THEN Append(sorted, row)
    ELSE Append(InsertDesc(SubSeq(sorted, 1, Len(sorted) - 1), row), sorted[Len(sorted)])

RECURSIVE StableSortDesc(_)
StableSortDesc(df) ==
    IF Len(df) = 0 THEN <<>>
    ELSE InsertDesc(StableSortDesc(SubSeq(df, 1, Len(df) - 1)), df[Len(df)])

\* DataFrame.nlargest(n, 'Match Score'): keep='first'
NLargest(df, n) == SubSeq(StableSortDesc(df), 1, n)

\* a faulty variant: a cascade that stops at the last threshold, with no top-N fallback
ThresholdCascadeNoTopN(df, threshold) ==
    LET strict == AtLeast(df, threshold)
        relaxed == AtLeast(df, Max(threshold - RelaxStep, RelaxFloor))
    IN IF Len(strict) >= MinResults THEN strict
       ELSE IF Len(relaxed) >= MinResults THEN relaxed
       ELSE AtLeast(df, LastThreshold)

\* a faulty variant: the cascade relaxes already when exactly MinResults jobs pass
ThresholdCascadeOffByOne(df, threshold) ==
    LET strict == AtLeast(df, threshold)
        relaxed == AtLeast(df, Max(threshold - RelaxStep, RelaxFloor))
        last == AtLeast(df, LastThreshold)
    IN IF Len(strict) > MinResults THEN strict
       ELSE IF Len(relaxed) > MinResults THEN relaxed
       ELSE IF Len(last) > MinResults THEN last
       ELSE NLargest(df, Min(TopN, Len(df)))

\* a faulty variant: a score filter without any relaxation
ThresholdStrictOnly(df, threshold) == AtLeast(df, threshold)

\* the score filter with its progressive fallback
ThresholdCascade(df, threshold) ==
    LET strict == AtLeast(df, threshold)
        relaxed == AtLeast(df, Max(threshold - RelaxStep, RelaxFloor))
        last == AtLeast(df, LastThreshold)
    IN IF Len(strict) >= MinResults THEN strict
       ELSE IF Len(relaxed) >= MinResults THEN relaxed
       ELSE IF Len(last) >= MinResults THEN last
       ELSE NLargest(df, Min(TopN, Len(df)))

UsStates == {"al", "ak", "az", "ar", "ca", "co", "ct", "de", "fl", "ga", "hi", "id", "il",
             "in", "ia", "ks", "ky", "la", "me", "md", "ma", "mi", "mn", "ms", "mo", "mt",
             "ne", "nv", "nh", "nj", "nm", "ny", "nc", "nd", "oh", "ok", "or", "pa", "ri",
             "sc", "sd", "tn", "tx", "ut", "vt", "va", "wa", "wv", "wi", "wy", "dc"}

\* us_state_pattern: a comma, blanks, a state abbreviation, a word boundary
IsUsCity(loc) ==
    \E i \in 1..Len(loc) :
        /\ CharAt(loc, i) = ","
        /\ \E j \in (i + 1)..(Len(loc) - 1) :
              /\ \A k \in (i + 1)..(j - 1) : CharAt(loc, k) = " "
              /\ SubSeq(loc, j, j + 1) \in UsStates
              /\ ~IsWordChar(loc, j + 2)

\* us_country_pattern: \b(united states|usa|u\.s\.a|u\.s\b)
IsUsCountry(loc) ==
    \E i \in 1..Len(loc) :
        /\ WordBoundary(loc, i)
        /\ \/ \E t \in {"united states", "usa", "u.s.a"} : StartsAt(loc, i, t)
           \/ StartsAt(loc, i, "u.s") /\ WordBoundary(loc, i + 3)

WorldwideKeywords == {"anywhere", "worldwide", "global", "international", "emea", "apac",
                      "latam", "europe", "africa", "asia"}

IsWorldwide(loc) == ContainsAny(loc, WorldwideKeywords)
IsJustRemote(loc) == Strip(loc) = "remote"

UsaKeywords == {"usa", "us", "united states", "america"}
IsUsa(loc) == ContainsAny(loc, UsaKeywords)

\* a faulty variant: a worldwide stage that penalises but never boosts
WorldwideRowNoBoost(row) ==
    LET loc == Lower(row.Location)
    IN [row EXCEPT !.Score = IF (IsUsCity(loc) \/ IsUsCountry(loc)) /\ ~IsWorldwide(loc)
                              THEN row.Score - UsPenalty ELSE row.Score]

\* a faulty variant: the penalty also falls on a job that names a worldwide scope
WorldwideRowBoth(row) ==
    LET loc == Lower(row.Location)
        up == IF IsWorldwide(loc) \/ IsJustRemote(loc) THEN row.Score + WorldwideBoost
              ELSE row.Score
        down == IF IsUsCity(loc) \/ IsUsCountry(loc) THEN up - UsPenalty ELSE up
    IN [row EXCEPT !.Score = down]

\* one row after the worldwide boost and the US penalty
WorldwideRow(row) ==
    LET loc == Lower(row.Location)
        up == IF IsWorldwide(loc) \/ IsJustRemote(loc) THEN row.Score + WorldwideBoost
              ELSE row.Score
        down == IF (IsUsCity(loc) \/ IsUsCountry(loc)) /\ ~IsWorldwide(loc) THEN up - UsPenalty
                ELSE up
    IN [row EXCEPT !.Score = down]

\* a faulty variant: the USA-only restriction applies however few jobs it leaves
LocationStageFailClosed(df, rtype) ==
    IF rtype \in {"Worldwide Remote (Anywhere)", "Worldwide (Anywhere)"}
    THEN [i \in 1..Len(df) |-> WorldwideRow(df[i])]
    ELSE IF rtype \in {"USA Remote Only", "USA Only"}
    THEN SelectSeq(df, LAMBDA row : IsUsa(Lower(row.Location)))
    ELSE df

\* a faulty variant: the boost and the penalty apply under every preference
LocationStagePenaliseAll(df, rtype) == [i \in 1..Len(df) |-> WorldwideRow(df[i])]

\* the location stage
LocationStage(df, rtype) ==
    IF rtype \in {"Worldwide Remote (Anywhere)", "Worldwide (Anywhere)"}
    THEN [i \in 1..Len(df) |-> WorldwideRow(df[i])]
    ELSE IF rtype \in {"USA Remote Only", "USA Only"}
    THEN LET usa_jobs == SelectSeq(df, LAMBDA row : IsUsa(Lower(row.Location)))
         IN IF Len(usa_jobs) >= MinUsaJobs THEN usa_jobs ELSE df
    ELSE df

\* the final cap
CapScores(df) == [i \in 1..Len(df) |-> [df[i] EXCEPT !.Score = ClipUpper(df[i].Score)]]

\* sort_values('Match Score', ascending=False) uses the default kind, quicksort, which
\* does not promise an order among equal scores: every descending order is possible.
RECURSIVE InsertAnywhere(_, _)
InsertAnywhere(sorted, row) ==
    IF Len(sorted) = 0 THEN {<<row>>}
    ELSE LET last == sorted[Len(sorted)]
             front == SubSeq(sorted, 1, Len(sorted) - 1)
         IN (IF last.Score >= row.Score THEN {Append(sorted, row)} ELSE {})
            \cup (IF last.Score <= row.Score
                  THEN {Append(s, last) : s \in InsertAnywhere(front, row)} ELSE {})

RECURSIVE SortOutcomes(_)
SortOutcomes(df) ==
    IF Len(df) = 0 THEN {<<>>}
    ELSE UNION {InsertAnywhere(s, df[Len(df)]) : s \in SortOutcomes(SubSeq(df, 1, Len(df) - 1))}

\* apply_all_filters, from the call to the return
ApplyAllFilters ==
    /\ f_pc = "call"
    /\ f_pc' = "done"
    /\ IF Len(f_input) = 0
       THEN /\ result' = f_input
            /\ UNCHANGED <<boosted, jobs_df, recent, score_filtered, located>>
       ELSE /\ boosted' = KeywordBoost(f_input, search_keywords)
            /\ jobs_df' = ExcludeFilter(boosted', exclude_keywords)
            /\ recent' = RecencyFilter(jobs_df', max_days)
            /\ score_filtered' = ThresholdCascade(recent', min_score)
            /\ located' = LocationStage(score_filtered', remote_type)
            /\ result' \in SortOutcomes(CapScores(located'))
    /\ UNCHANGED <<remote_type, max_days, min_score, exclude_keywords, search_keywords, f_input>>

\* the frames and arguments apply_all_filters is called with
NumScoreSteps == 4
FewPads == 4

ScoreLevels == {(k * ScoreCap) \div NumScoreSteps : k \in 0..NumScoreSteps}
TitleDescs == {<<"Data Analyst", "">>, <<"Office Nurse", "patient data">>, <<"Senior Nurse", "">>,
               <<"Data Engineer", "data pipelines">>}
Posteds == {<<"N/A">>, <<"date", 30>>, <<"date", 60>>}
Locations == {"New York, NY", "Remote - Worldwide", "Remote", "USA", "Berlin, Germany",
              "Europe or USA"}
RemoteTypes == {"Worldwide (Anywhere)", "All Remote", "USA Only"}
MinScores == {0, 1500, 5000, 10000}
MaxDaysChoices == {14, 45}
\* exclude_keywords and search_keywords, chosen together
KeywordArgs == {<<<<>>, <<>>>>, <<<<"senior">>, <<"data">>>>}
PadBases == {0, 4000}

\* idx is the row's index label: it names the row through the stages
Row(idx, title, desc, posted, loc, score) ==
    [idx |-> idx, Title |-> title, Description |-> desc, Posted |-> posted,
     Location |-> loc, Score |-> score]

FreeRows == {Row(1, td[1], td[2], p, l, sc) :
                td \in TitleDescs, p \in Posteds, l \in Locations, sc \in ScoreLevels}

\* the same job offered at another location
Twin(row, loc) == [row EXCEPT !.idx = 2, !.Location = loc]

\* n further jobs, no two with one score
Pads(n, base) ==
    [k \in 1..n |-> Row(k + 2, "Support Agent", "", <<"N/A">>, "USA", base + k)]

\* the rows offered a second time, and the rows that come with TopN others
PairRows == {r \in FreeRows : r.Title = "Data Analyst" /\ r.Posted = <<"N/A">>}
CrowdRows == {r \in FreeRows : r.Title # "Office Nurse"}

Frames ==
    {<<>>}
    \cup {<<r>> : r \in FreeRows}
    \cup {<<r, Twin(r, l)>> : r \in PairRows, l \in Locations}
    \cup {<<r>> \o Pads(FewPads, base) : r \in FreeRows, base \in PadBases}
    \cup {<<r>> \o Pads(TopN, base) : r \in CrowdRows, base \in PadBases}

FilterInit ==
    /\ f_pc = "call"
    /\ remote_type \in RemoteTypes
    /\ max_days \in MaxDaysChoices
    /\ min_score \in MinScores
    /\ \E ka \in KeywordArgs : exclude_keywords = ka[1] /\ search_keywords = ka[2]
    /\ f_input \in Frames
    /\ boosted = <<>>
    /\ jobs_df = <<>>
    /\ recent = <<>>
    /\ score_filtered = <<>>
    /\ located = <<>>
    /\ result = <<>>

FilterIdle ==
    /\ f_pc = "idle"
    /\ remote_type = "All Remote"
    /\ max_days = 14
    /\ min_score = 5000
    /\ exclude_keywords = <<>>
    /\ search_keywords = <<>>
    /\ f_input = <<>>
    /\ boosted = <<>>
    /\ jobs_df = <<>>
    /\ recent = <<>>
    /\ score_filtered = <<>>
    /\ located = <<>>
    /\ result = <<>>

ScrapeIdle ==
    /\ s_pc = "idle"
    /\ keywords = <<>>
    /\ all_jobs = <<>>
    /\ last_fetch = "none"
    /\ progress = <<>>
    /\ unique_jobs = <<>>
    /\ kept = <<>>

ScrapeInit ==
    /\ s_pc = "JobSpy"
    /\ keywords \in KeywordChoices
    /\ all_jobs = <<>>
    /\ last_fetch = "none"
    /\ progress = <<>>
    /\ unique_jobs = <<>>
    /\ kept = <<>>

(***************************************************************************)
(* EnhancedCVParser                                                        *)
(*                                                                         *)
(* The module's strings are ASCII: EnDash and EmDash stand for U+2013 and  *)
(* U+2014 of the date pattern's dash class.  The email and phone fields of *)
(* extract_info are not part of the model.                                 *)
(***************************************************************************)
VARIABLES
    p_pc,          \* "call", "done", "raised"; "idle" outside ParseSpec
    p_ext,         \* filename.lower().split('.')[-1]
    p_readable,    \* whether the format reader returns the text
    text,          \* the text of the uploaded file
    cv_data        \* self.cv_data

parseVars == <<p_pc, p_ext, p_readable, text, cv_data>>

MaxPhrases == 2

\* self.skill_database, one set per category
SkillDatabase ==
    UNION {
      \* social_media
      { "instagram", "facebook", "twitter", "tiktok", "linkedin", "youtube", "snapchat",
        "pinterest", "social media management", "content creation", "content strategy",
        "community management", "social media marketing", "social media analytics",
        "engagement", "brand awareness", "influencer marketing",
        "social media advertising", "paid social", "organic social", "hashtag strategy",
        "social listening", "crisis management", "brand voice", "copywriting",
        "content calendar", "scheduling", "hootsuite", "buffer", "sprout social",
        "later", "meta business suite", "facebook ads manager", "instagram insights",
        "twitter analytics", "tiktok analytics", "canva", "adobe creative suite",
        "photoshop", "illustrator", "video editing", "premiere pro", "final cut",
        "capcut", "seo", "sem", "google analytics", "social media reporting",
        "kpi tracking", "roi analysis", "a/b testing", "audience insights",
        "social media strategy", "brand management", "reputation management" },
      \* data_science
      { "python", "r", "sql", "java", "scala", "javascript", "c++", "machine learning",
        "deep learning", "neural networks", "ai", "artificial intelligence",
        "natural language processing", "nlp", "computer vision", "cv", "data analysis",
        "data science", "statistics", "probability", "tensorflow", "pytorch", "keras",
        "scikit-learn", "sklearn", "pandas", "numpy", "scipy", "matplotlib", "seaborn",
        "plotly", "jupyter", "apache spark", "hadoop", "big data", "etl", "aws", "azure",
        "gcp", "google cloud", "cloud computing", "docker", "kubernetes", "mlops",
        "model deployment", "tableau", "power bi", "git", "github", "agile", "scrum" },
      \* engineering
      { "software engineering", "web development", "frontend", "backend", "full stack",
        "react", "angular", "vue", "node.js", "express", "django", "flask", "fastapi",
        "typescript", "html", "css", "sass", "tailwind", "bootstrap", "mongodb",
        "postgresql", "mysql", "redis", "graphql", "rest api", "ci/cd", "jenkins",
        "terraform", "ansible", "linux", "devops", "microservices", "system design",
        "architecture", "testing", "unit testing" },
      \* design
      { "ui design", "ux design", "user research", "wireframing", "prototyping", "figma",
        "sketch", "adobe xd", "invision", "zeplin", "graphic design", "visual design",
        "branding", "typography", "color theory", "motion graphics", "animation",
        "after effects", "blender", "3d modeling", "product design", "design systems",
        "accessibility", "responsive design" },
      \* business
      { "sales", "business development", "account management", "client relations",
        "negotiation", "crm", "salesforce", "hubspot", "pipedrive", "strategy",
        "consulting", "market research", "competitive analysis", "financial analysis",
        "budgeting", "forecasting", "excel", "powerpoint", "operations", "supply chain",
        "logistics", "procurement", "vendor management" },
      \* hr_admin
      { "recruiting", "talent acquisition", "onboarding", "hr management", "payroll",
        "benefits administration", "employee relations", "performance management",
        "administrative", "executive assistant", "office management", "scheduling",
        "bookkeeping", "quickbooks", "invoicing", "data entry", "virtual assistant" },
      \* writing
      { "content writing", "technical writing", "blog writing", "article writing",
        "editing", "proofreading", "journalism", "storytelling", "creative writing",
        "grant writing", "proposal writing", "documentation", "translation" },
      \* customer_service
      { "customer support", "customer service", "help desk", "technical support",
        "live chat", "zendesk", "intercom", "freshdesk", "ticketing",
        "conflict resolution", "customer success", "account management", "retention" },
      \* soft_skills
      { "communication", "teamwork", "leadership", "project management",
        "problem solving", "critical thinking", "creativity", "collaboration",
        "time management", "organization", "adaptability", "remote work", "agile",
        "scrum", "cross-functional", "stakeholder management", "presentation", "writing",
        "research", "analytical", "attention to detail" } }

ProgLangs == {"python", "java", "javascript", "r", "sql", "scala", "c++", "c#"}

\* extract_comprehensive_skills: found_skills
ExtractComprehensiveSkills(t) ==
    LET text_lower == Lower(t)
    IN  {skill \in SkillDatabase \cup ProgLangs : Contains(text_lower, skill)}

Digits == "0123456789"
DigitSet == {CharAt(Digits, i) : i \in 1..Len(Digits)}
DigitVal == [c \in DigitSet |-> (CHOOSE i \in 1..Len(Digits) : CharAt(Digits, i) = c) - 1]
SpaceSet == {" ", "\t", "\n"}
EnDash == "~"
EmDash == "^"
DashSet == {"-", EnDash, EmDash}

IsDigitAt(s, p) == p <= Len(s) /\ CharAt(s, p) \in DigitSet
IsSpaceAt(s, p) == p <= Len(s) /\ CharAt(s, p) \in SpaceSet

\* length of the greedy \d* at p
RECURSIVE DigitRun(_, _)
DigitRun(s, p) == IF IsDigitAt(s, p) THEN 1 + DigitRun(s, p + 1) ELSE 0

\* length of the greedy \s* at p
RECURSIVE SpaceRun(_, _)
SpaceRun(s, p) == IF IsSpaceAt(s, p) THEN 1 + SpaceRun(s, p + 1) ELSE 0

\* length of the greedy [:\s]* at p
RECURSIVE ColonSpaceRun(_, _)
ColonSpaceRun(s, p) ==
    IF IsSpaceAt(s, p) \/ StartsAt(s, p, ":") THEN 1 + ColonSpaceRun(s, p + 1) ELSE 0

\* Python's int() of a string of digits
RECURSIVE ToInt(_)
ToInt(s) ==
    IF Len(s) = 0 THEN 0
    ELSE 10 * ToInt(SubSeq(s, 1, Len(s) - 1)) + DigitVal[CharAt(s, Len(s))]

NoMatch == [ok |-> FALSE, end |-> 0, groups |-> <<>>]

Matched(end, groups) == [ok |-> TRUE, end |-> end, groups |-> groups]

\* the position after a greedy \d*, \+? or \s* that starts at p
SkipDigits(s, p) == p + DigitRun(s, p)
SkipPlus(s, p) == IF StartsAt(s, p, "+") THEN p + 1 ELSE p
SkipSpaces(s, p) == p + SpaceRun(s, p)

\* years? at j after the digits s[i..j1-1]
YearsAt(s, i, j1, j) ==
    IF j1 > i /\ StartsAt(s, j, "year")
    THEN Matched(IF StartsAt(s, j + 4, "s") THEN j + 5 ELSE j + 4, <<SubSeq(s, i, j1 - 1)>>)
    ELSE NoMatch

\* (\d+)\+?\s*years? at position i; end is the position after the match
CountHead(s, i) ==
    YearsAt(s, i, SkipDigits(s, i), SkipSpaces(s, SkipPlus(s, SkipDigits(s, i))))

\* (?:of\s+)?experience at j, after the count h
ExperienceAt(s, h, j) ==
    IF StartsAt(s, j, "experience") THEN Matched(j + 10, h.groups)
    ELSE IF /\ StartsAt(s, j, "of")
            /\ IsSpaceAt(s, j + 2)
            /\ StartsAt(s, SkipSpaces(s, j + 2), "experience")
         THEN Matched(SkipSpaces(s, j + 2) + 10, h.groups)
         ELSE NoMatch

\* (?:in|working|as) at j, after the count h
RoleWordAt(s, h, j) ==
    IF StartsAt(s, j, "in") THEN Matched(j + 2, h.groups)
    ELSE IF StartsAt(s, j, "working") THEN Matched(j + 7, h.groups)
    ELSE IF StartsAt(s, j, "as") THEN Matched(j + 2, h.groups)
    ELSE NoMatch

\* \s+ and what pattern k asks for after it, after the count h
AfterCount(k, s, h) ==
    IF h.ok /\ IsSpaceAt(s, h.end)
    THEN IF k = 1 THEN ExperienceAt(s, h, SkipSpaces(s, h.end))
         ELSE RoleWordAt(s, h, SkipSpaces(s, h.end))
    ELSE NoMatch

\* (\d+)\+?\s*years?\s+(?:of\s+)?experience
Pattern1At(s, i) == AfterCount(1, s, CountHead(s, i))

\* experience[:\s]+(\d+)\+?\s*years?
Pattern2At(s, i) ==
    IF StartsAt(s, i, "experience") /\ ColonSpaceRun(s, i + 10) >= 1
    THEN CountHead(s, i + 10 + ColonSpaceRun(s, i + 10))
    ELSE NoMatch

\* (\d+)\+?\s*years?\s+(?:in|working|as)
Pattern3At(s, i) == AfterCount(3, s, CountHead(s, i))

\* 20\d{2}|19\d{2}
IsYearAt(s, p) ==
    (StartsAt(s, p, "20") \/ StartsAt(s, p, "19")) /\ IsDigitAt(s, p + 2) /\ IsDigitAt(s, p + 3)

\* (20\d{2}|19\d{2}|present|current) at j, after the start year at i
RangeEndAt(s, i, j) ==
    IF IsYearAt(s, j) THEN Matched(j + 4, <<SubSeq(s, i, i + 3), SubSeq(s, j, j + 3)>>)
    ELSE IF StartsAt(s, j, "present") THEN Matched(j + 7, <<SubSeq(s, i, i + 3), "present">>)
    ELSE IF StartsAt(s, j, "current") THEN Matched(j + 7, <<SubSeq(s, i, i + 3), "current">>)
    ELSE NoMatch

\* the dash at j and what follows it
DashAt(s, i, j) ==
    IF j <= Len(s) /\ CharAt(s, j) \in DashSet
    THEN RangeEndAt(s, i, SkipSpaces(s, j + 1))
    ELSE NoMatch

\* date_pattern: (20\d{2}|19\d{2})\s*[-...]\s*(20\d{2}|19\d{2}|present|current)
DatePatternAt(s, i) ==
    IF IsYearAt(s, i) THEN DashAt(s, i, SkipSpaces(s, i + 4)) ELSE NoMatch

DatePattern == 4
PatternIds == 1..3

PatternAt(k, s, i) ==
    CASE k = 1 -> Pattern1At(s, i)
      [] k = 2 -> Pattern2At(s, i)
      [] k = 3 -> Pattern3At(s, i)
      [] k = DatePattern -> DatePatternAt(s, i)

\* re.findall(pattern, s): the groups of the non-overlapping matches, left to right
RECURSIVE FindAllFrom(_, _, _)
FindAllFrom(k, s, i) ==
    IF i > Len(s) THEN <<>>
    ELSE LET m == PatternAt(k, s, i)
         IN  IF m.ok THEN <<m.groups>> \o FindAllFrom(k, s, m.end)
             ELSE FindAllFrom(k, s, i + 1)

FindAll(k, s) == FindAllFrom(k, s, 1)

RefYear == 2026

\* max([int(m) for m in matches]) of a non-empty list
RECURSIVE MaxMatch(_)
MaxMatch(matches) ==
    IF Len(matches) = 1 THEN ToInt(matches[1][1])
    ELSE Max(ToInt(matches[1][1]), MaxMatch(Tail(matches)))

\* the loop over patterns, from pattern k on
RECURSIVE YearsFromPatterns(_, _, _)
YearsFromPatterns(s, k, years) ==
    IF k \notin PatternIds THEN years
    ELSE LET matches == FindAll(k, s)
         IN  YearsFromPatterns(s, k + 1,
                 IF matches # <<>> THEN Max(years, MaxMatch(matches)) ELSE years)

\* the loop over date_ranges
RECURSIVE TotalYears(_)
TotalYears(date_ranges) ==
    IF date_ranges = <<>> THEN 0
    ELSE LET start_year == ToInt(Head(date_ranges)[1])
             end == Head(date_ranges)[2]
             end_year == IF end \in {"present", "current"} THEN RefYear ELSE ToInt(end)
         IN  (end_year - start_year) + TotalYears(Tail(date_ranges))

\* the date step overwriting the explicit count
ExtractYearsExperienceDatesWin(t) ==
    LET text_lower == Lower(t)
        years == YearsFromPatterns(text_lower, 1, 0)
        date_ranges == FindAll(DatePattern, text_lower)
    IN  IF date_ranges # <<>> THEN TotalYears(date_ranges) ELSE years

\* _extract_years_experience
ExtractYearsExperience(t) ==
    LET text_lower == Lower(t)
        years == YearsFromPatterns(text_lower, 1, 0)
        date_ranges == FindAll(DatePattern, text_lower)
    IN  IF date_ranges # <<>> THEN Max(years, TotalYears(date_ranges)) ELSE years

\* extract_info
ExtractInfo(t) ==
    LET found_skills == ExtractComprehensiveSkills(t)
    IN  [skills |-> found_skills,
         years_experience |-> ExtractYearsExperience(t),
         full_text |-> t,
         skill_count |-> Cardinality(found_skills)]

Extensions == {"pdf", "docx", "doc", "txt", "exe"}
SupportedExtensions == {"pdf", "docx", "doc", "txt"}

Phrases ==
    {"my career in retail", "I use Python daily", "5 years of experience",
     "3 years experience", "10+ Years Experience", "Experience: 7 years",
     "2 years in sales", "2015~2020", "2010 - 2020", "2019-Present",
     "2021^2018", "R and SQL", "2030-Present"}

Texts == {Join(ps, " ") : ps \in UNION {[1..n -> Phrases] : n \in 0..MaxPhrases}}

FailingTexts == {"", "5 years of experience"}

\* parse
Parse ==
    /\ p_pc = "call"
    /\ IF p_ext \in SupportedExtensions /\ p_readable
       THEN /\ cv_data' = ExtractInfo(text)
            /\ p_pc' = "done"
       ELSE /\ cv_data' = cv_data
            /\ p_pc' = "raised"
    /\ UNCHANGED <<p_ext, p_readable, text>>

\* self.cv_data = {}
NoCvData == <<>>

ParseInit ==
    /\ p_pc = "call"
    /\ \/ p_ext = "txt" /\ p_readable = TRUE /\ text \in Texts
       \/ p_ext \in Extensions /\ p_readable \in BOOLEAN /\ text \in FailingTexts
    /\ cv_data = NoCvData

ParseIdle ==
    /\ p_pc = "idle"
    /\ p_ext = "txt"
    /\ p_readable = TRUE
    /\ text = ""
    /\ cv_data = NoCvData

(***************************************************************************)
(* ApplicationHelper                                                       *)
(*                                                                         *)
(* A dict is a function from its keys; a generated text is the record of   *)
(* the values interpolated into its template.                              *)
(***************************************************************************)
VARIABLES
    h_pc,       \* "call", "done", "raised"; "idle" outside HelperSpec
    h_cv,       \* the cv_data argument
    h_job,      \* the job argument
    h_desc,     \* the job_description argument
    h_out       \* the value returned by the generator

helperVars == <<h_pc, h_cv, h_job, h_desc, h_out>>

\* d.get(k, default)
Get(d, k, default) == IF k \in DOMAIN d THEN d[k] ELSE default

\* Python's list[:n]
Slice(list, n) == SubSeq(list, 1, Min(n, Len(list)))

\* match_skills_to_job
MatchSkillsToJob(cv_skills, job_description) ==
    IF job_description = "" THEN Slice(cv_skills, 5)
    ELSE LET desc_lower == Lower(job_description)
             matched_skills ==
                 SelectSeq(cv_skills, LAMBDA skill : Contains(desc_lower, Lower(skill)))
         IN  IF matched_skills # <<>> THEN Slice(matched_skills, 8) ELSE Slice(cv_skills, 5)

DataRoleTerms == {"data", "scientist", "analyst", "ai", "machine learning", "ml"}
SocialMediaTerms == {"social media", "content", "community", "marketing"}

PassionLine(job) ==
    LET job_title_lower == Lower(Get(job, "Title", ""))
    IN  IF ContainsAny(job_title_lower, DataRoleTerms) THEN "data"
        ELSE IF ContainsAny(job_title_lower, SocialMediaTerms) THEN "social media"
        ELSE "general"

\* generate_cover_letter: the letter, or the IndexError of [][0]
CoverLetter(cv, job, job_description) ==
    LET matched_skills == MatchSkillsToJob(Get(cv, "skills", <<>>), job_description)
        skills_str == IF matched_skills # <<>> THEN Join(Slice(matched_skills, 5), ", ")
                      ELSE Join(Slice(Get(cv, "skills", <<>>), 5), ", ")
        fallback == Get(cv, "skills", <<"relevant tools">>)
    IN  IF matched_skills = <<>> /\ fallback = <<>>
        THEN [raised |-> TRUE, kind |-> "cover_letter"]
        ELSE [raised |-> FALSE,
              kind |-> "cover_letter",
              title |-> Get(job, "Title", "Position"),
              company |-> Get(job, "Company", "your company"),
              years |-> Get(cv, "years_experience", 1),
              skills_str |-> skills_str,
              passion_line |-> PassionLine(job),
              capabilities |-> IF matched_skills # <<>>
                               THEN Join(Slice(matched_skills, 3), ", ")
                               ELSE Join(Slice(Get(cv, "skills", <<>>), 3), ", "),
              proficiency |-> IF matched_skills # <<>> THEN matched_skills[1]
                              ELSE fallback[1],
              email |-> Get(cv, "email", "[Your Email]"),
              phone |-> Get(cv, "phone", "")]

\* generate_resume_bullets
ResumeBullets(cv, job, job_description) ==
    LET matched_skills == MatchSkillsToJob(Get(cv, "skills", <<>>), job_description)
        key_skills == IF matched_skills # <<>> THEN Slice(matched_skills, 3)
                      ELSE Slice(Get(cv, "skills", <<>>), 3)
    IN  [raised |-> FALSE,
         kind |-> "resume_bullets",
         leveraged |-> <<IF key_skills # <<>> THEN key_skills[1] ELSE "technical skills",
                         IF Len(key_skills) > 1 THEN key_skills[2] ELSE "advanced tools",
                         IF Len(key_skills) > 2 THEN key_skills[3] ELSE "best practices">>,
         years |-> Get(cv, "years_experience", 1),
         expertise |-> IF matched_skills # <<>> THEN Join(Slice(matched_skills, 4), ", ")
                       ELSE Join(Slice(Get(cv, "skills", <<>>), 4), ", ")]

\* generate_application_email
ApplicationEmail(cv, job) ==
    [raised |-> FALSE,
     kind |-> "application_email",
     title |-> Get(job, "Title", "Position"),
     company |-> Get(job, "Company", "your company"),
     years |-> Get(cv, "years_experience", 1),
     background |-> Join(Slice(Get(cv, "skills", <<>>), 3), ", "),
     email |-> Get(cv, "email", "[Your Email]"),
     phone |-> Get(cv, "phone", "")]

Returns(out) ==
    /\ h_pc = "call"
    /\ h_out' = out
    /\ h_pc' = IF out.raised THEN "raised" ELSE "done"
    /\ UNCHANGED <<h_cv, h_job, h_desc>>

GenerateCoverLetter == Returns(CoverLetter(h_cv, h_job, h_desc))

GenerateResumeBullets == Returns(ResumeBullets(h_cv, h_job, h_desc))

GenerateApplicationEmail == Returns(ApplicationEmail(h_cv, h_job))

SkillLists ==
    {<<>>, <<"python">>, <<"python", "sql">>,
     <<"excel", "python", "r", "seo", "sql", "tableau">>}

Profiles ==
    {[years_experience |-> y] : y \in {0, 4}}
    \cup {[skills |-> sk] : sk \in SkillLists}
    \cup {[skills |-> sk, years_experience |-> y, email |-> "a@b.co", phone |-> "555 0100"] :
             sk \in SkillLists, y \in {0, 4}}

HelperJobs ==
    {[Title |-> "Data Analyst", Company |-> "Acme"],
     [Title |-> "Content Writer", Company |-> "Acme"],
     [Title |-> "Barista"],
     [Company |-> "Acme"]}

Descriptions == {"", "We use SQL and Python.", "Friendly barista wanted"}

NoOutput == [raised |-> FALSE, kind |-> "none"]

HelperInit ==
    /\ h_pc = "call"
    /\ h_cv \in Profiles
    /\ h_job \in HelperJobs
    /\ h_desc \in Descriptions
    /\ h_out = NoOutput

HelperIdle ==
    /\ h_pc = "idle"
    /\ h_cv = [skills |-> <<>>]
    /\ h_job = [Title |-> "Barista"]
    /\ h_desc = ""
    /\ h_out = NoOutput

(***************************************************************************)
(* JobMatcher (src/streamlit_app.py, class JobMatcher) and main            *)
(***************************************************************************)
VARIABLES
    m_pc,                \* where a run of main stands: "ready" between runs, then
                         \* "search", "score", "filter"; "raised" if scoring raised
    m_runs,              \* the runs of main started from the uploader or the search button
    m_parse,             \* this run's parse: "none", "ok" or "failed"
    m_jobs,              \* jobs: the normalised list, scored in place by score_jobs
    m_outcomes,          \* what the vectoriser did for each job of this run
    m_progress,          \* the fractions update_progress got in this run, in percent
    st_cv_data,          \* st.session_state.cv_data (<<>> for None, else <<profile>>)
    st_filename,         \* st.session_state.uploaded_filename
    st_search_complete,  \* st.session_state.search_complete
    st_search_count,     \* st.session_state.search_count
    st_jobs_df,          \* st.session_state.jobs_df (<<>> for None, else <<frame>>)
    st_show_materials    \* st.session_state.show_materials

mainVars == <<m_pc, m_runs, m_parse, m_jobs, m_outcomes, m_progress, st_cv_data,
              st_filename, st_search_complete, st_search_count, st_jobs_df,
              st_show_materials>>

MaxRuns == 2

\* self.adjacent_roles: a role type and the roles next to it
AdjacentRoles ==
    "social media" :> {"content creator", "community manager", "brand strategist",
           "digital marketer", "marketing coordinator", "influencer"}
    @@ "content" :> {"copywriter", "writer", "blogger", "editor", "content strategist"}
    @@ "marketing" :> {"growth", "campaign manager", "brand coordinator", "seo"}
    @@ "software" :> {"developer", "engineer", "programmer", "full stack", "backend",
           "frontend"}
    @@ "python" :> {"data scientist", "machine learning", "backend", "automation"}
    @@ "javascript" :> {"frontend", "react", "node", "web developer", "full stack"}
    @@ "data" :> {"analyst", "scientist", "bi", "reporting", "insights", "analytics"}
    @@ "design" :> {"ui", "ux", "graphic", "visual", "product designer", "creative"}
    @@ "figma" :> {"ui designer", "ux designer", "product designer", "visual designer"}
    @@ "sales" :> {"business development", "account executive", "account manager",
           "bdm"}
    @@ "account" :> {"customer success", "client relations", "account manager"}
    @@ "customer" :> {"support", "service", "help desk", "success", "chat"}
    @@ "admin" :> {"assistant", "coordinator", "office manager", "executive assistant"}
    @@ "virtual assistant" :> {"admin", "data entry", "scheduling", "bookkeeping"}
    @@ "recruiting" :> {"talent acquisition", "hr", "sourcer", "recruiter"}
    @@ "hr" :> {"people operations", "talent", "employee relations"}

\* self.skill_synonyms: a skill and the words that count for it
SkillSynonyms ==
    "python" :> {"programming", "coding", "development"}
    @@ "javascript" :> {"js", "frontend", "web development"}
    @@ "react" :> {"frontend", "ui development", "web app"}
    @@ "sql" :> {"database", "data", "queries"}
    @@ "excel" :> {"spreadsheet", "data analysis", "reporting"}
    @@ "canva" :> {"graphic design", "visual design", "design tools"}
    @@ "figma" :> {"ui design", "ux design", "prototyping"}
    @@ "social media" :> {"smm", "social marketing", "digital marketing"}
    @@ "content creation" :> {"content writing", "copywriting", "storytelling"}
    @@ "customer service" :> {"customer support", "help desk", "client support"}
    @@ "project management" :> {"pm", "coordination", "planning"}
    @@ "analytics" :> {"data analysis", "reporting", "insights", "metrics"}

\* the skills in the order of Python's sorted()
SkillOrder ==
 << "3d modeling", "a/b testing", "accessibility", "account management",
    "adaptability", "administrative", "adobe creative suite", "adobe xd",
    "after effects", "agile", "ai", "analytical", "angular", "animation", "ansible",
    "apache spark", "architecture", "article writing", "artificial intelligence",
    "attention to detail", "audience insights", "aws", "azure", "backend",
    "benefits administration", "big data", "blender", "blog writing", "bookkeeping",
    "bootstrap", "brand awareness", "brand management", "brand voice", "branding",
    "budgeting", "buffer", "business development", "c#", "c++", "canva", "capcut",
    "ci/cd", "client relations", "cloud computing", "collaboration", "color theory",
    "communication", "community management", "competitive analysis", "computer vision",
    "conflict resolution", "consulting", "content calendar", "content creation",
    "content strategy", "content writing", "copywriting", "creative writing",
    "creativity", "crisis management", "critical thinking", "crm", "cross-functional",
    "css", "customer service", "customer success", "customer support", "cv",
    "data analysis", "data entry", "data science", "deep learning", "design systems",
    "devops", "django", "docker", "documentation", "editing", "employee relations",
    "engagement", "etl", "excel", "executive assistant", "express", "facebook",
    "facebook ads manager", "fastapi", "figma", "final cut", "financial analysis",
    "flask", "forecasting", "freshdesk", "frontend", "full stack", "gcp", "git",
    "github", "google analytics", "google cloud", "grant writing", "graphic design",
    "graphql", "hadoop", "hashtag strategy", "help desk", "hootsuite", "hr management",
    "html", "hubspot", "illustrator", "influencer marketing", "instagram",
    "instagram insights", "intercom", "invision", "invoicing", "java", "javascript",
    "jenkins", "journalism", "jupyter", "keras", "kpi tracking", "kubernetes", "later",
    "leadership", "linkedin", "linux", "live chat", "logistics", "machine learning",
    "market research", "matplotlib", "meta business suite", "microservices", "mlops",
    "model deployment", "mongodb", "motion graphics", "mysql",
    "natural language processing", "negotiation", "neural networks", "nlp", "node.js",
    "numpy", "office management", "onboarding", "operations", "organic social",
    "organization", "paid social", "pandas", "payroll", "performance management",
    "photoshop", "pinterest", "pipedrive", "plotly", "postgresql", "power bi",
    "powerpoint", "premiere pro", "presentation", "probability", "problem solving",
    "procurement", "product design", "project management", "proofreading",
    "proposal writing", "prototyping", "python", "pytorch", "quickbooks", "r", "react",
    "recruiting", "redis", "remote work", "reputation management", "research",
    "responsive design", "rest api", "retention", "roi analysis", "sales",
    "salesforce", "sass", "scala", "scheduling", "scikit-learn", "scipy", "scrum",
    "seaborn", "sem", "seo", "sketch", "sklearn", "snapchat", "social listening",
    "social media advertising", "social media analytics", "social media management",
    "social media marketing", "social media reporting", "social media strategy",
    "software engineering", "sprout social", "sql", "stakeholder management",
    "statistics", "storytelling", "strategy", "supply chain", "system design",
    "tableau", "tailwind", "talent acquisition", "teamwork", "technical support",
    "technical writing", "tensorflow", "terraform", "testing", "ticketing", "tiktok",
    "tiktok analytics", "time management", "translation", "twitter",
    "twitter analytics", "typescript", "typography", "ui design", "unit testing",
    "user research", "ux design", "vendor management", "video editing",
    "virtual assistant", "visual design", "vue", "web development", "wireframing",
    "writing", "youtube", "zendesk", "zeplin" >>

\* the try/except around fit_transform and cosine_similarity: the outcome is what the
\* library did, a failure or a similarity in hundredths of a percent
TfidfScoreUncaught(outcome) ==
    [raised |-> outcome.failed, value |-> outcome.value]

TfidfScore(outcome) ==
    [raised |-> FALSE, value |-> IF outcome.failed THEN 0 ELSE outcome.value]

\* match_job: the scored job, whether the call raised, and the multiplier it used (in
\* tenths).  Scores are in hundredths; with n = max(len(cv_skills), 1) the base score
\* times 100 n is 35 tfidf n + 40 min(150 matches, 100 n) 100 + 100 bonus 100 n, and
\* round(.., 2) rounds the quotient to the nearest hundredth.
MatchJob(cv, job, outcome) ==
    LET title == Lower(Get(job, "Title", ""))
        desc == Lower(Prefix(Get(job, "Description", ""), 1500))
        job_text == Join(<<title, title, desc>>, " ")
        skill_list == SelectSeq(SkillOrder, LAMBDA s : s \in cv.skills)
        cv_text == Lower(Join(<<Join(skill_list, " "), Prefix(cv.full_text, 3000)>>, " "))
        tfidf == TfidfScore(outcome)
        cv_skills == {Lower(s) : s \in cv.skills}
        expanded_skills ==
            cv_skills \cup UNION {SkillSynonyms[s] : s \in cv_skills \cap DOMAIN SkillSynonyms}
        skill_matches == Cardinality({s \in expanded_skills : Contains(job_text, s)})
        n == Max(Cardinality(cv_skills), 1)
        skill_times_n == Min(15000 * skill_matches, 10000 * n)
        adjacency_bonus ==
            15 * Cardinality({role_type \in DOMAIN AdjacentRoles :
                                 /\ Contains(cv_text, role_type)
                                 /\ ContainsAny(job_text, AdjacentRoles[role_type])})
        title_bonus ==
            8 * Cardinality({kw \in {"manager", "coordinator", "specialist", "analyst",
                                     "developer", "engineer", "designer", "assistant",
                                     "associate", "consultant", "administrator",
                                     "marketing", "sales", "support", "content", "data",
                                     "software", "product"} :
                                Contains(cv_text, kw) /\ Contains(title, kw)})
        years == cv.years_experience
        is_entry == ContainsAny(title, {"junior", "associate", "assistant", "coordinator",
                                        "entry", "intern", "specialist"})
        is_senior == ContainsAny(title, {"senior", "lead", "head", "director", "manager",
                                         "principal"})
        exp_multiplier ==
            IF is_senior /\ years < 3 THEN 7
            ELSE IF is_entry /\ 1 <= years /\ years <= 3 THEN 12
            ELSE IF ~is_senior /\ 1 <= years /\ years <= 4 THEN 11
            ELSE 10
        base_times_n ==
            35 * tfidf.value * n + 40 * skill_times_n
            + 100 * (adjacency_bonus + title_bonus) * 100 * n
        final_score ==
            Min((2 * base_times_n * exp_multiplier + 1000 * n) \div (2 * 1000 * n), 10000)
    IN  [raised |-> tfidf.raised,
         exp_multiplier |-> exp_multiplier,
         job |-> [Title |-> job.Title, Company |-> job.Company,
                  Location |-> job.Location, Description |-> job.Description,
                  URL |-> job.URL, Salary |-> job.Salary, Posted |-> job.Posted,
                  Source |-> job.Source,
                  Score |-> final_score,
                  Explanation |-> [Text |-> tfidf.value, Skills |-> skill_times_n \div n,
                                   Fit |-> adjacency_bonus + title_bonus],
                  SkillsMatched |-> skill_matches]]

\* a faulty variant: the error of parse is swallowed and the run goes on
MainUploadSwallows ==
    /\ m_pc = "ready"
    /\ m_runs < MaxRuns
    /\ m_runs' = m_runs + 1
    /\ \E uploaded_file \in
              {[name |-> "", ext |-> "", readable |-> FALSE, text |-> ""],
               [name |-> "cv.txt", ext |-> "txt", readable |-> TRUE,
                text |-> "Python, SQL. 2010-2014"],
               [name |-> "cv2.docx", ext |-> "docx", readable |-> TRUE,
                text |-> "SQL 2 years in sales"],
               [name |-> "scan.pdf", ext |-> "pdf", readable |-> FALSE, text |-> ""]},
          search_button \in BOOLEAN :
          IF uploaded_file.name # ""
             /\ (st_cv_data = <<>> \/ st_filename # uploaded_file.name)
          THEN IF uploaded_file.ext \in SupportedExtensions /\ uploaded_file.readable
               THEN /\ st_cv_data' = <<ExtractInfo(uploaded_file.text)>>
                    /\ st_filename' = uploaded_file.name
                    /\ st_search_complete' = FALSE
                    /\ m_parse' = "ok"
                    /\ m_pc' = IF search_button THEN "search" ELSE "ready"
               ELSE /\ m_parse' = "failed"
                    /\ m_pc' = IF search_button THEN "search" ELSE "ready"
                    /\ UNCHANGED <<st_cv_data, st_filename, st_search_complete>>
          ELSE /\ m_parse' = "none"
               /\ m_pc' = IF search_button THEN "search" ELSE "ready"
               /\ UNCHANGED <<st_cv_data, st_filename, st_search_complete>>
    /\ m_progress' = <<>>
    /\ UNCHANGED <<m_jobs, m_outcomes, st_search_count, st_jobs_df, st_show_materials>>
    /\ UNCHANGED filterVars

\* main, from the file uploader to the search button (one rerun of the script): the
\* uploader hands over no file or one of a few files; a file is parsed when no profile
\* is held or its name is new; a parse that raises ends the run where it stands
MainUpload ==
    /\ m_pc = "ready"
    /\ m_runs < MaxRuns
    /\ m_runs' = m_runs + 1
    /\ \E uploaded_file \in
              {[name |-> "", ext |-> "", readable |-> FALSE, text |-> ""],
               [name |-> "cv.txt", ext |-> "txt", readable |-> TRUE,
                text |-> "Python, SQL. 2010-2014"],
               [name |-> "cv2.docx", ext |-> "docx", readable |-> TRUE,
                text |-> "SQL 2 years in sales"],
               [name |-> "scan.pdf", ext |-> "pdf", readable |-> FALSE, text |-> ""]},
          search_button \in BOOLEAN :
          IF uploaded_file.name # ""
             /\ (st_cv_data = <<>> \/ st_filename # uploaded_file.name)
          THEN IF uploaded_file.ext \in SupportedExtensions /\ uploaded_file.readable
               THEN /\ st_cv_data' = <<ExtractInfo(uploaded_file.text)>>
                    /\ st_filename' = uploaded_file.name
                    /\ st_search_complete' = FALSE
                    /\ m_parse' = "ok"
                    /\ m_pc' = IF search_button THEN "search" ELSE "ready"
               ELSE /\ m_parse' = "failed"
                    /\ m_pc' = "ready"
                    /\ UNCHANGED <<st_cv_data, st_filename, st_search_complete>>
          ELSE /\ m_parse' = "none"
               /\ m_pc' = IF search_button THEN "search" ELSE "ready"
               /\ UNCHANGED <<st_cv_data, st_filename, st_search_complete>>
    /\ m_progress' = <<>>
    /\ UNCHANGED <<m_jobs, m_outcomes, st_search_count, st_jobs_df, st_show_materials>>
    /\ UNCHANGED filterVars

\* main, the search button's branch up to the normalised jobs: the job titles typed in
\* hold no comma, and scrape_all returns one of a few lists
MainSearch ==
    /\ m_pc = "search"
    /\ \E job_titles \in {"  ", " Data Engineer"},
          jobs \in
              {<<>>,
               <<[title |-> "Senior Data Engineer", company |-> "Acme",
                  description |-> "python, sql, 5 years", url |-> "/j/1",
                  posted_date |-> <<"date", 3>>, source |-> "Remotive"],
                 [title |-> "Junior Barista", company |-> "Beans", location |-> "USA",
                  url |-> "/j/2", source |-> "Jobicy"]>>,
               <<[title |-> "Senior Associate", company |-> "Acme",
                  location |-> "Remote - Worldwide", description |-> "sales",
                  url |-> "/j/3", posted_date |-> <<"date", 60>>],
                 [title |-> "Data Analyst", company |-> "Acme", location |-> "USA",
                  description |-> "reporting with sql", url |-> "/j/4",
                  source |-> "RemoteOK"]>>} :
          IF st_cv_data = <<>> \/ Strip(job_titles) = ""
          THEN /\ m_pc' = "ready"
               /\ UNCHANGED <<m_jobs, m_progress, st_search_complete, search_keywords>>
          ELSE IF jobs = <<>>
          THEN /\ m_pc' = "ready"
               /\ m_progress' = <<5>> \o <<5, 15, 25, 35, 45, 55, 65, 75, 80>>
               /\ st_search_complete' = FALSE
               /\ UNCHANGED <<m_jobs, search_keywords>>
          ELSE /\ m_pc' = "score"
               /\ m_progress' = <<5>> \o <<5, 15, 25, 35, 45, 55, 65, 75, 80>>
               /\ search_keywords' = <<Lower(Strip(job_titles))>>
               /\ m_jobs' = [i \in 1..Len(jobs) |->
                                [Title |-> Get(jobs[i], "title", ""),
                                 Company |-> Get(jobs[i], "company", ""),
                                 Location |-> Get(jobs[i], "location", "Remote"),
                                 Description |-> Get(jobs[i], "description", ""),
                                 URL |-> Get(jobs[i], "url", ""),
                                 Salary |-> Get(jobs[i], "salary", "N/A"),
                                 Posted |-> Get(jobs[i], "posted_date", <<"N/A">>),
                                 Source |-> Get(jobs[i], "source", "Unknown")]]
               /\ UNCHANGED st_search_complete
    /\ UNCHANGED <<m_runs, m_parse, m_outcomes, st_cv_data, st_filename, st_search_count,
                   st_jobs_df, st_show_materials>>
    /\ UNCHANGED <<f_pc, remote_type, max_days, min_score, exclude_keywords, f_input,
                   boosted, jobs_df, recent, score_filtered, located, result>>

\* main, JobMatcher(cv_data).score_jobs(jobs) and the arguments of the filter call:
\* match_job scores each job in turn, and the widgets give the filter's settings
ScoreJobs ==
    /\ m_pc = "score"
    /\ \E outcomes \in [1..Len(m_jobs) ->
                           {[failed |-> TRUE, value |-> 0], [failed |-> FALSE, value |-> 1807],
                            [failed |-> FALSE, value |-> 6000]}],
          widgets \in {<<"Worldwide (Anywhere)", 2000, 14>>} :
          LET scored == [i \in 1..Len(m_jobs) |->
                            MatchJob(st_cv_data[1], m_jobs[i], outcomes[i])]
              total == Len(m_jobs)
              scoring == [k \in 1..((total + 9) \div 10) |-> 60 + (30 * 10 * (k - 1)) \div total]
          IN  /\ m_outcomes' = outcomes
              /\ m_progress' = m_progress \o <<50>> \o scoring \o <<90>>
              /\ IF \E i \in 1..Len(m_jobs) : scored[i].raised
                 THEN /\ m_pc' = "raised"
                      /\ UNCHANGED <<m_jobs, filterVars>>
                 ELSE /\ m_pc' = "filter"
                      /\ m_jobs' = [i \in 1..Len(m_jobs) |-> scored[i].job]
                      /\ f_input' = [i \in 1..Len(m_jobs) |->
                                        Row(i, scored[i].job.Title,
                                            scored[i].job.Description,
                                            scored[i].job.Posted, scored[i].job.Location,
                                            scored[i].job.Score)]
                      /\ f_pc' = "call"
                      /\ remote_type' = widgets[1]
                      /\ min_score' = widgets[2]
                      /\ max_days' = widgets[3]
                      /\ exclude_keywords' = <<>>
                      /\ UNCHANGED <<search_keywords, boosted, jobs_df, recent,
                                     score_filtered, located, result>>
    /\ UNCHANGED <<m_runs, m_parse, st_cv_data, st_filename, st_search_complete,
                   st_search_count, st_jobs_df, st_show_materials>>

\* main, after apply_all_filters returned: the session state takes the frame, and the
\* run ends, its locals and those of the calls it made with it
MainFinish ==
    /\ m_pc = "filter"
    /\ f_pc = "done"
    /\ m_pc' = "ready"
    /\ st_jobs_df' = <<result>>
    /\ st_search_complete' = TRUE
    /\ st_search_count' = st_search_count + 1
    /\ m_jobs' = <<>>
    /\ m_outcomes' = <<>>
    /\ m_progress' = Append(m_progress, 100)
    /\ f_pc' = "idle"
    /\ remote_type' = "All Remote"
    /\ max_days' = 14
    /\ min_score' = 5000
    /\ exclude_keywords' = <<>>
    /\ search_keywords' = <<>>
    /\ f_input' = <<>>
    /\ boosted' = <<>>
    /\ jobs_df' = <<>>
    /\ recent' = <<>>
    /\ score_filtered' = <<>>
    /\ located' = <<>>
    /\ result' = <<>>
    /\ UNCHANGED <<m_runs, m_parse, st_cv_data, st_filename, st_show_materials>>

\* the Application Materials section is on the page a finished run left: a run that
\* parse aborted shows nothing below the uploader
MaterialsRendered ==
    /\ m_pc = "ready"
    /\ m_parse # "failed"
    /\ st_show_materials
    /\ st_jobs_df # <<>>
    /\ Len(st_jobs_df[1]) > 0

\* a click on "Generate Application Materials", a button of the results section, and
\* the rerun it asks for: the uploader holds the file it held, which is not parsed again
MainGenerateMaterials ==
    /\ m_pc = "ready"
    /\ m_parse # "failed"
    /\ st_search_complete
    /\ st_jobs_df # <<>>
    /\ Len(st_jobs_df[1]) > 0
    /\ st_show_materials' = TRUE
    /\ m_parse' = "none"
    /\ m_progress' = <<>>
    /\ UNCHANGED <<m_pc, m_runs, m_jobs, m_outcomes, st_cv_data, st_filename,
                   st_search_complete, st_search_count, st_jobs_df>>
    /\ UNCHANGED filterVars

\* a click on "Close" in the materials section, and the rerun it asks for
MainCloseMaterials ==
    /\ MaterialsRendered
    /\ st_show_materials' = FALSE
    /\ m_parse' = "none"
    /\ m_progress' = <<>>
    /\ UNCHANGED <<m_pc, m_runs, m_jobs, m_outcomes, st_cv_data, st_filename,
                   st_search_complete, st_search_count, st_jobs_df>>
    /\ UNCHANGED filterVars

MainIdle ==
    /\ m_pc = "ready"
    /\ m_runs = 0
    /\ m_parse = "none"
    /\ m_jobs = <<>>
    /\ m_outcomes = <<>>
    /\ st_cv_data = <<>>
    /\ st_filename = ""
    /\ st_search_complete = FALSE
    /\ st_search_count = 0
    /\ st_jobs_df = <<>>
    /\ st_show_materials = FALSE
    /\ m_progress = <<>>

vars == <<scrapeVars, filterVars, parseVars, helperVars, mainVars>>

(***************************************************************************)
(* Spec: one call of JobScraper.scrape_all                                 *)
(***************************************************************************)
Init == ScrapeInit /\ FilterIdle /\ ParseIdle /\ HelperIdle /\ MainIdle

Next ==
    \/ ScrapeJobspy /\ UNCHANGED <<filterVars, parseVars, helperVars, mainVars>>
    \/ ScrapeRemoteok /\ UNCHANGED <<filterVars, parseVars, helperVars, mainVars>>
    \/ ScrapeRemotive /\ UNCHANGED <<filterVars, parseVars, helperVars, mainVars>>
    \/ ScrapeJobicy /\ UNCHANGED <<filterVars, parseVars, helperVars, mainVars>>
    \/ ScrapeArbeitnow /\ UNCHANGED <<filterVars, parseVars, helperVars, mainVars>>
    \/ ScrapeHimalayas /\ UNCHANGED <<filterVars, parseVars, helperVars, mainVars>>
    \/ ScrapeWeworkremotely /\ UNCHANGED <<filterVars, parseVars, helperVars, mainVars>>
    \/ KeywordFilter /\ UNCHANGED <<filterVars, parseVars, helperVars, mainVars>>
    \/ Dedup /\ UNCHANGED <<filterVars, parseVars, helperVars, mainVars>>

Spec == Init /\ [][Next]_vars

(***************************************************************************)
(* FilterSpec: one call of JobFilter.apply_all_filters                     *)
(***************************************************************************)
FilterSpecInit == FilterInit /\ ScrapeIdle /\ ParseIdle /\ HelperIdle /\ MainIdle

FilterNext == ApplyAllFilters /\ UNCHANGED <<scrapeVars, parseVars, helperVars, mainVars>>

FilterSpec == FilterSpecInit /\ [][FilterNext]_vars

(***************************************************************************)
(* ParseSpec: one call of EnhancedCVParser.parse                           *)
(***************************************************************************)
ParseSpecInit == ParseInit /\ ScrapeIdle /\ FilterIdle /\ HelperIdle /\ MainIdle

ParseNext == Parse /\ UNCHANGED <<scrapeVars, filterVars, helperVars, mainVars>>

ParseSpec == ParseSpecInit /\ [][ParseNext]_vars

(***************************************************************************)
(* HelperSpec: one call of an ApplicationHelper generator                  *)
(***************************************************************************)
HelperSpecInit == HelperInit /\ ScrapeIdle /\ FilterIdle /\ ParseIdle /\ MainIdle

HelperNext ==
    \/ GenerateCoverLetter /\ UNCHANGED <<scrapeVars, filterVars, parseVars, mainVars>>
    \/ GenerateResumeBullets /\ UNCHANGED <<scrapeVars, filterVars, parseVars, mainVars>>
    \/ GenerateApplicationEmail /\ UNCHANGED <<scrapeVars, filterVars, parseVars, mainVars>>

HelperSpec == HelperSpecInit /\ [][HelperNext]_vars

(***************************************************************************)
(* MainSpec: reruns of main, from the upload to the stored frame           *)
(***************************************************************************)
MainInit == MainIdle /\ ScrapeIdle /\ FilterIdle /\ ParseIdle /\ HelperIdle

MainNext ==
    \/ MainUpload /\ UNCHANGED <<scrapeVars, parseVars, helperVars>>
    \/ MainSearch /\ UNCHANGED <<scrapeVars, parseVars, helperVars>>
    \/ ScoreJobs /\ UNCHANGED <<scrapeVars, parseVars, helperVars>>
    \/ ApplyAllFilters /\ UNCHANGED <<scrapeVars, parseVars, helperVars, mainVars>>
    \/ MainFinish /\ UNCHANGED <<scrapeVars, parseVars, helperVars>>
    \/ MainGenerateMaterials /\ UNCHANGED <<scrapeVars, parseVars, helperVars>>
    \/ MainCloseMaterials /\ UNCHANGED <<scrapeVars, parseVars, helperVars>>

MainSpec == MainInit /\ [][MainNext]_vars

(***************************************************************************)
(* Claims about JobScraper.scrape_all (checked under Spec)                 *)
(***************************************************************************)
KeptSet == {kept[k] : k \in 1..Len(kept)}

\* positions i < j of the list handed to the dedup pass with one non-empty url
SameUrlPair(i, j) ==
    /\ i \in 1..Len(all_jobs) /\ j \in 1..Len(all_jobs) /\ i < j
    /\ all_jobs[i].url # "" /\ all_jobs[i].url = all_jobs[j].url

\* positions i < j with a blank url and one lower-cased (title, company) pair
SameBlankPair(i, j) ==
    /\ i \in 1..Len(all_jobs) /\ j \in 1..Len(all_jobs) /\ i < j
    /\ all_jobs[i].url = "" /\ all_jobs[j].url = ""
    /\ Lower(all_jobs[i].title) = Lower(all_jobs[j].title)
    /\ Lower(all_jobs[i].company) = Lower(all_jobs[j].company)

\* C1 as claimed: of two records with the same non-empty url, exactly one is in the
\* returned list (never both, never neither), whatever precedes them.
C1_ExactlyOnePerUrlPair ==
    s_pc = "done" =>
        \A i, j \in 1..Len(all_jobs) :
            SameUrlPair(i, j) =>
                Cardinality({k \in KeptSet : all_jobs[k].url = all_jobs[i].url}) = 1

\* C1 as amended: of two records with the same non-empty url never both are returned;
\* a record with a non-empty url is left out only when its url or its title_company
\* key is that of a record kept before it, so a url is absent from the result only
\* when every record carrying it has the key of an earlier kept record.
C1_AtMostOnePerUrl ==
    s_pc = "done" =>
        /\ \A i, j \in 1..Len(all_jobs) :
              SameUrlPair(i, j) => ~(i \in KeptSet /\ j \in KeptSet)
        /\ \A i \in 1..Len(all_jobs) :
              (all_jobs[i].url # "" /\ i \notin KeptSet) =>
                  \E k \in KeptSet :
                      /\ k < i
                      /\ \/ all_jobs[k].url = all_jobs[i].url
                         \/ JobKey(all_jobs[k]) = JobKey(all_jobs[i])

\* C1 witness: two records with one url reached the dedup pass and one was returned
C1_Witness ==
    /\ s_pc = "done"
    /\ \E i, j \in 1..Len(all_jobs) :
          SameUrlPair(i, j) /\ i \in KeptSet /\ j \notin KeptSet

\* C2 as claimed: of two records with a blank url and the same lower-cased
\* (title, company), exactly one survives deduplication.
C2_BlankUrlFallback ==
    s_pc = "done" =>
        \A i, j \in 1..Len(all_jobs) :
            SameBlankPair(i, j) =>
                Cardinality({k \in KeptSet : /\ all_jobs[k].url = ""
                                              /\ Lower(all_jobs[k].title) = Lower(all_jobs[i].title)
                                              /\ Lower(all_jobs[k].company) = Lower(all_jobs[i].company)}) = 1

SourceNames == {Sources[k] : k \in 1..Len(Sources)}

\* C7: scrape_all never raises, and a fetcher that fails adds nothing to all_jobs and
\* hands over to the next source, exactly as a fetcher that returned no jobs.
C7_FailureIsolated ==
    [][ /\ s_pc' # "raised"
        /\ (s_pc \in SourceNames /\ last_fetch' = "failed") =>
              (all_jobs' = all_jobs /\ s_pc' # s_pc) ]_vars

\* C7 witness: the last fetcher failed and the call still returned other sources' jobs
C7_Witness == s_pc = "done" /\ last_fetch = "failed" /\ Len(unique_jobs) > 0

(***************************************************************************)
(* Claims about JobFilter.apply_all_filters (checked under FilterSpec)     *)
(***************************************************************************)
Rows(df) == {df[i] : i \in 1..Len(df)}

InBounds(df) == \A row \in Rows(df) : row.Score >= 0 /\ row.Score <= ScoreCap

\* C3 as claimed: Match Score is within [0, 100] after the keyword boost and in the
\* returned frame, for every remote_type.
C3_ScoreBounds == f_pc = "done" => (InBounds(boosted) /\ InBounds(result))

\* C4: when at least 5 jobs pass the recency stage, at least 5 jobs are returned.
C4_AtLeastFive == (f_pc = "done" /\ Len(recent) >= MinResults) => Len(result) >= MinResults

\* C4 witness: 5 jobs passed recency, fewer than 5 met min_score, 5 were returned
C4_Witness ==
    /\ f_pc = "done"
    /\ Len(recent) >= MinResults
    /\ Len(AtLeast(recent, min_score)) < MinResults
    /\ Len(result) >= MinResults

\* C5 as claimed: a non-empty candidate set never gives an empty result.
C5_NonEmptyFromInput == (f_pc = "done" /\ Len(f_input) > 0) => Len(result) > 0

\* C5 as amended: when the set that enters the score threshold stage (what the
\* exclude and recency filters leave) is non-empty, the result is non-empty.
C5_NonEmptyFromRecent == (f_pc = "done" /\ Len(recent) > 0) => Len(result) > 0

\* C5 witness: jobs passed recency, none met min_score, the result is not empty
C5_Witness ==
    /\ f_pc = "done"
    /\ Len(recent) > 0
    /\ Len(AtLeast(recent, min_score)) = 0
    /\ Len(result) > 0

IsWorldwidePref == remote_type \in {"Worldwide Remote (Anywhere)", "Worldwide (Anywhere)"}

\* rows a ("New York, NY") and b ("Remote - Worldwide") that enter the location stage
\* identical but for the location
LocationPair(a, b) ==
    /\ a \in Rows(score_filtered) /\ b \in Rows(score_filtered)
    /\ a.Location = "New York, NY" /\ b.Location = "Remote - Worldwide"
    /\ [a EXCEPT !.idx = 0, !.Location = ""] = [b EXCEPT !.idx = 0, !.Location = ""]

FinalScore(idx) == (CHOOSE row \in Rows(result) : row.idx = idx).Score

\* C6 as claimed: under the worldwide preference the New York job ends at least 70
\* points below its Worldwide twin, for every starting score.
C6_SeventyLower ==
    (f_pc = "done" /\ IsWorldwidePref) =>
        \A a, b \in Rows(score_filtered) :
            LocationPair(a, b) => FinalScore(b.idx) - FinalScore(a.idx) >= 7000

\* C6 as amended: the gap is at least 70 points for a starting score of at most 70;
\* above 70 the cap at 100 cuts the twin's boost and the gap is 140 minus the
\* starting score, so at least 40.
C6_SeventyLowerBelowCap ==
    (f_pc = "done" /\ IsWorldwidePref) =>
        \A a, b \in Rows(score_filtered) :
            LocationPair(a, b) =>
                /\ a.Score <= 7000 => FinalScore(b.idx) - FinalScore(a.idx) >= 7000
                /\ a.Score > 7000 => FinalScore(b.idx) - FinalScore(a.idx) = 14000 - a.Score
                /\ FinalScore(b.idx) - FinalScore(a.idx) >= 4000

\* C6 witness: such a pair went through the location stage under the worldwide
\* preference and ended 70 points apart
C6_Witness ==
    /\ f_pc = "done" /\ IsWorldwidePref
    /\ \E a, b \in Rows(score_filtered) :
          LocationPair(a, b) /\ FinalScore(b.idx) - FinalScore(a.idx) = 7000

(***************************************************************************)
(* Claims about ApplicationHelper (checked under HelperSpec)               *)
(***************************************************************************)

\* C8: the three generators never fail for any profile and job; with a
\* missing or empty field (an empty skills list included) a text is still
\* returned.
C8_GeneratorsNeverFail ==
    /\ h_pc # "raised"
    /\ h_pc = "done" => ~h_out.raised

(***************************************************************************)
(* Claims about EnhancedCVParser (checked under ParseSpec)                 *)
(***************************************************************************)

\* the one-letter token c stands in t as a whole word
WholeWord(t, c) ==
    \E i \in 1..Len(t) :
        /\ LowerChar(CharAt(t, i)) = c
        /\ i = 1 \/ CharAt(t, i - 1) \notin WordCharSet
        /\ i = Len(t) \/ CharAt(t, i + 1) \notin WordCharSet

\* C9: skill extraction matches on word boundaries: "my career in retail"
\* reports neither "r" nor "c", "I use Python daily" reports "python", and a
\* one-letter skill is reported only when it occurs as a whole word.
C9_WordBoundarySkills ==
    p_pc = "done" =>
        /\ text = "my career in retail" => cv_data.skills \cap {"r", "c"} = {}
        /\ text = "I use Python daily" => "python" \in cv_data.skills
        /\ \A skill \in cv_data.skills : Len(skill) = 1 => WholeWord(text, skill)

\* the values of all matches of the three explicit patterns, at any position
ExplicitCounts(t) ==
    LET s == Lower(t)
    IN  {ToInt(PatternAt(k, s, i).groups[1]) :
            <<k, i>> \in {ki \in PatternIds \X (1..Len(s)) : PatternAt(ki[1], s, ki[2]).ok}}

SetMax(S) == IF S = {} THEN 0 ELSE CHOOSE m \in S : \A n \in S : n <= m

LargestExplicit(t) == SetMax(ExplicitCounts(t))

RangeSum(t) == TotalYears(FindAll(DatePattern, Lower(t)))

\* C10: _extract_years_experience returns max(a, b), a the largest N over all
\* matches of the three explicit patterns (0 if none) and b the sum of
\* end_year - start_year over the ranges found (0 if none); "5 years of
\* experience" gives 5, a 2015-2020 range gives 5, "3 years experience" with a
\* 2010-2020 range gives 10, and a text with no pattern gives 0.
C10_YearsIsMax ==
    p_pc = "done" =>
        /\ cv_data.years_experience = Max(LargestExplicit(text), RangeSum(text))
        /\ text = "5 years of experience" => cv_data.years_experience = 5
        /\ text = "2015~2020" => cv_data.years_experience = 5
        /\ text = "3 years experience 2010 - 2020" => cv_data.years_experience = 10
        /\ text = "my career in retail" => cv_data.years_experience = 0

C10_Witness ==
    /\ p_pc = "done"
    /\ LargestExplicit(text) > RangeSum(text)
    /\ RangeSum(text) > 0
    /\ cv_data.years_experience = LargestExplicit(text)

(***************************************************************************)
(* Claims about JobMatcher and main (checked under MainSpec)               *)
(***************************************************************************)
\* the jobs just scored by score_jobs, by position
Scored == IF m_pc = "filter" THEN 1..Len(m_jobs) ELSE {}

\* C11: match_job never raises to its caller: when the vectorisation or the
\* cosine fails, the lexical term is 0, and the final score, the explanation
\* and the number of skills matched are still computed from the remaining
\* terms and stored on the job.
C11_ScoringNeverRaises ==
    /\ m_pc # "raised"
    /\ \A i \in Scored :
          m_outcomes[i].failed =>
              /\ m_jobs[i].Explanation.Text = 0
              /\ m_jobs[i] = MatchJob(st_cv_data[1], m_jobs[i],
                                      [failed |-> FALSE, value |-> 0]).job

C11_Witness ==
    \E i \in Scored :
        /\ m_outcomes[i].failed
        /\ m_jobs[i].SkillsMatched > 0
        /\ m_jobs[i].Score > 0

\* C13: for a profile with skills {"python", "sql"} and 4 years, Job A ("Senior
\* Data Engineer", description "python, sql, 5 years") gets a Match Score
\* strictly greater than that of Job B ("Junior Barista") and greater than 50.
\* The vectoriser's answer for Job A is the cosine of the two texts, 18.07.
C13_JobAAboveJobBAndFifty ==
    \A a \in Scored, b \in Scored :
        /\ st_cv_data[1].skills = {"python", "sql"}
        /\ st_cv_data[1].years_experience = 4
        /\ m_jobs[a].Title = "Senior Data Engineer"
        /\ m_jobs[a].Description = "python, sql, 5 years"
        /\ m_outcomes[a] = [failed |-> FALSE, value |-> 1807]
        /\ m_jobs[b].Title = "Junior Barista"
        => /\ m_jobs[a].Score > m_jobs[b].Score
           /\ m_jobs[a].Score > 5000

\* the profiles parse() can return for the files that can be read
ParsedProfiles ==
    {ExtractInfo(t) : t \in {"Python, SQL. 2010-2014", "SQL 2 years in sales"}}

\* C14: if parsing the uploaded CV fails, no profile is stored for that file and
\* the run is aborted before any scraping, scoring or filtering: score_jobs is
\* reached only when a successfully parsed profile is held in session state and
\* this run's parse did not fail.
C14_NoScoringAfterFailedParse ==
    /\ m_pc \in {"search", "score", "filter", "raised"} =>
          /\ m_parse # "failed"
          /\ m_pc # "search" => st_cv_data \in {<<cv>> : cv \in ParsedProfiles}
    /\ m_parse = "failed" => st_filename # "scan.pdf" /\ f_pc = "idle" /\ m_jobs = <<>>

\* a run whose parse failed although an earlier run left a profile and a frame
C14_Witness ==
    /\ m_parse = "failed"
    /\ m_pc = "ready"
    /\ st_cv_data # <<>>
    /\ st_search_count > 0

IsSeniorTitle(title) ==
    ContainsAny(Lower(title), {"senior", "lead", "head", "director", "manager", "principal"})

IsEntryTitle(title) ==
    ContainsAny(Lower(title), {"junior", "associate", "assistant", "coordinator", "entry",
                               "intern", "specialist"})

\* the multiplier as the text states it, in tenths
StatedMultiplier(title, years) ==
    IF IsSeniorTitle(title) /\ years < 3 THEN 7
    ELSE IF IsEntryTitle(title) /\ years \in 1..3 THEN 12
    ELSE IF ~IsSeniorTitle(title) /\ ~IsEntryTitle(title) /\ years \in 1..4 THEN 11
    ELSE 10

\* C17: the experience multiplier is 0.7 for a senior title with years < 3;
\* otherwise 1.2 for an entry title with 1 <= years <= 3; otherwise 1.1 only
\* for a title neither senior nor entry with 1 <= years <= 4; otherwise 1.0.
\* An entry, non-senior title with years = 4 gets 1.0.
C17_ExperienceMultiplier ==
    \A i \in Scored :
        MatchJob(st_cv_data[1], m_jobs[i], m_outcomes[i]).exp_multiplier
            = StatedMultiplier(m_jobs[i].Title, st_cv_data[1].years_experience)

(***************************************************************************)
(* Further claims about JobFilter.apply_all_filters (checked under         *)
(* FilterSpec)                                                             *)
(***************************************************************************)
\* where the job with this index label stands in the frame
PositionOf(df, idx) == CHOOSE p \in 1..Len(df) : df[p].idx = idx

\* C12: the returned frame is ordered by Match Score descending, and jobs with
\* equal final Match Score appear in the relative order they had before the
\* sort (stable tie-break).
C12_StableDescending ==
    f_pc = "done" =>
        \A p \in 1..Len(result), q \in 1..Len(result) :
            p < q =>
                /\ result[p].Score >= result[q].Score
                /\ result[p].Score = result[q].Score =>
                      PositionOf(located, result[p].idx) < PositionOf(located, result[q].idx)

\* the thresholds at which the outcome of the score stage can change for this frame
Thresholds(df) ==
    {min_score} \cup {m \in {row.Score + d : row \in Rows(df), d \in {0, 1}} :
                         m >= 0 /\ m <= ScoreCap}

\* C15: for a fixed set of candidates entering the score stage and thresholds
\* m1 < m2, the stage keeps no more jobs for m2 than for m1, unless the
\* relaxation is triggered (the strict filter for m2 keeps fewer than 5 jobs).
C15_ThresholdMonotone ==
    f_pc = "done" =>
        \A m1 \in Thresholds(recent), m2 \in Thresholds(recent) :
            (m1 < m2 /\ Len(AtLeast(recent, m2)) >= MinResults) =>
                Len(ThresholdCascade(recent, m2)) <= Len(ThresholdCascade(recent, m1))

\* the threshold in force keeps more jobs than a higher one that needs no relaxation
C15_Witness ==
    /\ f_pc = "done"
    /\ score_filtered = AtLeast(recent, min_score)
    /\ \E m2 \in Thresholds(recent) :
          /\ min_score < m2
          /\ Len(AtLeast(recent, m2)) >= MinResults
          /\ Len(ThresholdCascade(recent, m2)) < Len(score_filtered)

\* a location mentions a USA term when one of the four terms occurs in it, in any case
MentionsUsaTerm(row) ==
    \E term \in {"usa", "us", "united states", "america"} :
        Contains(Lower(row.Location), term)

\* C20: under the USA-only preference the post-threshold set is restricted to
\* the jobs whose location mentions a USA term only when at least 5 such jobs
\* exist; with fewer the set is left exactly as it was; either way the stage
\* changes no Match Score.
C20_UsaOnlyFailsOpen ==
    (f_pc = "done" /\ Len(f_input) > 0 /\ remote_type = "USA Only") =>
        LET usa_rows == SelectSeq(score_filtered, MentionsUsaTerm)
        IN  /\ Len(usa_rows) >= MinUsaJobs => located = usa_rows
            /\ Len(usa_rows) < MinUsaJobs => located = score_filtered
            /\ Rows(located) \subseteq Rows(score_filtered)

\* the restriction applied and removed a job
C20_Witness ==
    /\ f_pc = "done"
    /\ remote_type = "USA Only"
    /\ Len(located) >= MinUsaJobs
    /\ Len(located) < Len(score_filtered)
    /\ \A i \in 1..Len(located) : MentionsUsaTerm(located[i])

(***************************************************************************)
(* Further claims about JobScraper.scrape_all (checked under Spec)         *)
(***************************************************************************)
\* C16: in the returned list no two jobs share a url and no two share the
\* lower-cased title+company key; a job is kept only if both its url and its
\* key were unseen among the jobs kept before it.
C16_UniqueUrlAndKey ==
    s_pc = "done" =>
        /\ \A a \in 1..Len(unique_jobs), b \in 1..Len(unique_jobs) :
              a # b => /\ unique_jobs[a].url # unique_jobs[b].url
                       /\ JobKey(unique_jobs[a]) # JobKey(unique_jobs[b])
        /\ \A i \in KeptSet, k \in KeptSet :
              k < i => /\ all_jobs[k].url # all_jobs[i].url
                       /\ JobKey(all_jobs[k]) # JobKey(all_jobs[i])

\* two jobs were returned and a third, with a new url, was left out for its key
C16_Witness ==
    /\ s_pc = "done"
    /\ Len(unique_jobs) >= 2
    /\ \E i \in 1..Len(all_jobs) :
          /\ i \notin KeptSet
          /\ all_jobs[i].url # ""
          /\ \A k \in KeptSet : all_jobs[k].url # all_jobs[i].url
          /\ \E k \in KeptSet : k < i /\ JobKey(all_jobs[k]) = JobKey(all_jobs[i])

\* positions i < j of the list handed to the dedup pass whose records are duplicates:
\* one url, or one lower-cased title+company key
DuplicatePair(i, j) ==
    /\ i \in 1..Len(all_jobs) /\ j \in 1..Len(all_jobs) /\ i < j
    /\ \/ all_jobs[i].url = all_jobs[j].url
       \/ JobKey(all_jobs[i]) = JobKey(all_jobs[j])

\* C18: among duplicate records the one that comes first in the merged list is
\* the one kept: the first of them is returned and no later one is; the
\* sources are fetched once each in the order JobSpy, RemoteOK, Remotive,
\* Jobicy, Arbeitnow, Himalayas, WeWorkRemotely, and the output preserves the
\* relative order of the merged list.
C18_FirstSeenWins ==
    s_pc = "done" =>
        /\ \A i, j \in 1..Len(all_jobs) :
              DuplicatePair(i, j) =>
                  /\ j \notin KeptSet
                  /\ (\A h \in 1..Len(all_jobs) : ~DuplicatePair(h, i)) => i \in KeptSet
        /\ SubSeq(progress, 1, Len(Sources)) = <<5, 15, 25, 35, 45, 55, 65>>
        /\ \A a \in 1..Len(kept), b \in 1..Len(kept) : a < b => kept[a] < kept[b]

\* a job survives when an expanded keyword occurs in its lower-cased title, or in
\* the first DescLimit characters of its lower-cased description
SurvivesKeywords(job, kws) ==
    \E kw \in ExpandedKeywords(kws) :
        \/ Contains(Lower(job.title), kw)
        \/ Contains(Prefix(Lower(job.description), DescLimit), kw)

\* C19: when keywords are given, a job survives the keyword pre-filter if and
\* only if some expanded keyword is a substring of its lower-cased title or of
\* the first 500 characters of its lower-cased description; a keyword found
\* only across the end of the title and the start of the description does not
\* make the job survive.
C19_TitleOrDescription ==
    [][(s_pc = "keyword_filter" /\ Len(keywords) > 0) =>
          all_jobs' = SelectSeq(all_jobs, LAMBDA job : SurvivesKeywords(job, keywords))]_vars

(***************************************************************************)
(* Claims about the stages of apply_all_filters (checked under FilterSpec) *)
(***************************************************************************)
\* a text matches when it holds one of the search keywords, in any case
MatchesKeyword(t) ==
    \E k \in 1..Len(search_keywords) :
        Strip(search_keywords[k]) # "" /\ Contains(Lower(t), Lower(Strip(search_keywords[k])))

\* what the keyword boost adds to a job
StatedBoost(row) ==
    IF MatchesKeyword(row.Title) THEN TitleBoost
    ELSE IF MatchesKeyword(row.Description) THEN DescBoost
    ELSE 0

\* C21: in the keyword-boost stage each job receives exactly one of +15 (its
\* title matches a search keyword, whether or not the description does), +10
\* (only its description matches) or nothing; the boosted score is capped at
\* 100 and the stage removes no job.
C21_OneBoostPerJob ==
    (f_pc = "done" /\ Len(f_input) > 0) =>
        /\ Len(boosted) = Len(f_input)
        /\ \A i \in 1..Len(f_input) :
              boosted[i] = [f_input[i] EXCEPT
                               !.Score = Min(f_input[i].Score + StatedBoost(f_input[i]), ScoreCap)]

\* a job whose title and description both match was boosted, below the cap
C21_Witness ==
    /\ f_pc = "done"
    /\ \E i \in 1..Len(f_input) :
          /\ MatchesKeyword(f_input[i].Title)
          /\ MatchesKeyword(f_input[i].Description)
          /\ boosted[i].Score = f_input[i].Score + TitleBoost
          /\ boosted[i].Score < ScoreCap

\* C22: the score cascade never drops a job that meets the requested
\* threshold: for every min_score, also below 20 and below 10 where the relaxed
\* thresholds are stricter than min_score, every job of the post-recency set
\* with Match Score >= min_score is in the set the cascade outputs.
C22_CascadeKeepsQualifying ==
    (f_pc = "done" /\ Len(f_input) > 0) =>
        \A row \in Rows(recent) : row.Score >= min_score => row \in Rows(score_filtered)

\* a threshold below the relaxed ones, met by fewer than MinResults jobs, so that
\* the cascade went past the strict filter
C22_Witness ==
    /\ f_pc = "done"
    /\ min_score < RelaxFloor
    /\ Len(AtLeast(recent, min_score)) \in 1..(MinResults - 1)
    /\ Len(AtLeast(recent, RelaxFloor)) < Len(AtLeast(recent, min_score))
    /\ Len(score_filtered) >= Len(AtLeast(recent, min_score))

NoRelaxation == Len(AtLeast(recent, min_score)) >= MinResults

\* C24 as claimed: when the strict threshold already keeps at least 5 jobs, every
\* job in the returned frame has a final Match Score >= min_score, for every
\* remote_type preference.
C24_ResultMeetsThreshold ==
    (f_pc = "done" /\ Len(f_input) > 0 /\ NoRelaxation) =>
        \A row \in Rows(result) : row.Score >= min_score

\* C24 as amended: without relaxation every returned job has a final Match Score
\* >= min_score under every preference but the worldwide one; under the
\* worldwide preference the location stage comes after the threshold, and a
\* job it penalises ends at most 40 points below min_score.
C24_ResultMeetsThresholdLessPenalty ==
    (f_pc = "done" /\ Len(f_input) > 0 /\ NoRelaxation) =>
        \A row \in Rows(result) :
            /\ ~IsWorldwidePref => row.Score >= min_score
            /\ IsWorldwidePref => row.Score >= min_score - UsPenalty

\* under the worldwide preference a job passed the strict threshold and was then
\* penalised below it, next to one that was not
C24_Witness ==
    /\ f_pc = "done" /\ IsWorldwidePref /\ NoRelaxation
    /\ min_score > 0
    /\ \E row \in Rows(result) : row.Score < min_score
    /\ \E row \in Rows(result) : row.Score >= min_score

\* C28: under the worldwide preference the location stage changes each
\* surviving job's Match Score by exactly one of +30, -40 or 0 (no job gets
\* both the boost and the penalty), and under every other preference the
\* location stage changes no Match Score.
C28_LocationStageDelta ==
    (f_pc = "done" /\ Len(f_input) > 0) =>
        IF IsWorldwidePref
        THEN /\ Len(located) = Len(score_filtered)
             /\ \A i \in 1..Len(located) :
                   \E delta \in {WorldwideBoost, 0 - UsPenalty, 0} :
                       located[i] = [score_filtered[i] EXCEPT !.Score = @ + delta]
        ELSE Rows(located) \subseteq Rows(score_filtered)

\* under the worldwide preference a job naming both a worldwide scope and the USA
\* got the boost alone, and another job got the penalty
C28_Witness ==
    /\ f_pc = "done" /\ IsWorldwidePref
    /\ \E i \in 1..Len(located) :
          /\ located[i].Location = "Europe or USA"
          /\ located[i].Score = score_filtered[i].Score + WorldwideBoost
    /\ \E i \in 1..Len(located) : located[i].Score = score_filtered[i].Score - UsPenalty

(***************************************************************************)
(* Claims about the dedup pass of scrape_all (checked under Spec)          *)
(***************************************************************************)
\* the lower-cased (title, company) pair of a job
TitleCompany(job) == <<Lower(job.title), Lower(job.company)>>

\* C25: in the dedup pass a job with a non-empty url is kept whenever its url
\* differs from the url of every earlier kept job and its lower-cased (title,
\* company) pair differs from the pair of every earlier kept job: two
\* different pairs are never treated as one identity.
C25_DistinctPairsKept ==
    s_pc = "done" =>
        \A i \in 1..Len(all_jobs) :
            (/\ all_jobs[i].url # ""
             /\ \A k \in KeptSet :
                   k < i => /\ all_jobs[k].url # all_jobs[i].url
                            /\ TitleCompany(all_jobs[k]) # TitleCompany(all_jobs[i]))
                => i \in KeptSet

\* C30: the dedup pass is idempotent: run on its own output it returns that
\* output unchanged, the same jobs in the same order.
C30_DedupIdempotent ==
    s_pc = "done" =>
        DedupIdx(unique_jobs) = [k \in 1..Len(unique_jobs) |-> k]

\* the pass dropped duplicates and returned more than one job
C30_Witness ==
    /\ s_pc = "done"
    /\ Len(unique_jobs) >= 2
    /\ Len(unique_jobs) < Len(all_jobs)

(***************************************************************************)
(* A further claim about EnhancedCVParser (checked under ParseSpec)        *)
(***************************************************************************)
\* C29: _extract_years_experience returns an integer >= 0 for every text, also
\* for texts whose date ranges run backwards (end year before start year) or
\* start after the reference year used for present/current.
C29_YearsNeverNegative ==
    p_pc = "done" => cv_data.years_experience \in Nat

\* a text with a backwards range and a range that starts after the reference year
C29_Witness ==
    /\ p_pc = "done"
    /\ Contains(text, "2021^2018")
    /\ Contains(text, "2030-Present")
    /\ RangeSum(text) < 0
    /\ cv_data.years_experience = 0

(***************************************************************************)
(* Further claims about main (checked under MainSpec)                      *)
(***************************************************************************)
\* C26: during one search driven by main every fraction passed to the progress
\* callback lies in [0, 1], and the reported fractions never decrease from
\* the first call to the final 1.0.
C26_ProgressNeverDecreases ==
    /\ \A k \in 1..Len(m_progress) : m_progress[k] >= 0 /\ m_progress[k] <= 100
    /\ \A k \in 1..(Len(m_progress) - 1) : m_progress[k] <= m_progress[k + 1]

\* C27: across any sequence of user actions the application-materials section
\* is rendered only while search_complete is true, that is only for a job list
\* produced by a completed search with the CV now loaded.
C27_MaterialsOnlyAfterSearch ==
    MaterialsRendered => st_search_complete

====
